---- MODULE Spec2Model ----
(***************************************************************************)
(* Task-lifecycle engine of the silver tier: the human-approval workflow   *)
(* (approval_system.py), the iterative plan/step execution loop            *)
(* (iterative_reasoning_engine.py), the inbox file watcher                 *)
(* (file_watcher_service.py), the recovery strategy selection              *)
(* (agent_loop.py), the orchestrator (core/) and the WhatsApp state        *)
(* manager (whatsapp-node/state_manager.py).                               *)
(*                                                                         *)
(* Each subsystem has its own specification (SpecApproval, SpecEngine,     *)
(* SpecWatcher, SpecRecovery, SpecOrch, SpecWhatsApp); the variables of    *)
(* the other subsystems stay at their initial value there.                 *)
(***************************************************************************)
EXTENDS Integers, Sequences, FiniteSets, TLC

(***************************************************************************)
(* Bounds of the model.                                                    *)
(***************************************************************************)
\* total number of successful create_approval_request calls
MaxRequests == 3
\* number of tasks handed to the wrapped executor
MaxTasks == 2
\* number of steps of an executed plan
MaxSteps == 3
\* largest max_attempts of a step of an executed plan
MaxAttempts == 3
\* largest number of dependencies of a step of an executed plan
MaxDeps == 2
\* number of steps of a plan handed to _finalize_plan alone
MaxFinalSteps == 5
\* the watcher is observed for this many half seconds
MaxClock == 6
\* max_queue_size the watcher service is configured with
MaxQueue == 2
\* calls of determine_recovery_strategy on one failure
MaxCalls == 2
\* events submitted to the orchestrator
MaxEvents == 2
\* seconds of the orchestrator's clock that are observed
MaxSecond == 1
\* updating calls made on the WhatsApp StateManager
MaxUpdates == 3

(***************************************************************************)
(* Program constants (seconds).                                            *)
(***************************************************************************)
PollInterval == 30
DefaultTimeout == 3600
TimeoutLow == 7200
TimeoutMedium == 3600
TimeoutHigh == 1800
TimeoutCritical == 900
AmountThreshold == 1000
\* Step.max_attempts default
DefaultMaxAttempts == 3
\* StepResult.confidence default (1.0) and the intervention threshold (0.7),
\* in hundredths
DefaultConfidence == 100
ConfidenceThreshold == 70
\* WatcherConfig.debounce_seconds (2.0), in half seconds
DebounceTicks == 4
\* the age beyond which _mark_processed drops an entry (1 hour), in half
\* seconds
CleanupTicks == 7200

VARIABLES
    pending,    \* Needs_Approval directory: approval id -> file content
    done,       \* Done directory: <<approval id, suffix>> -> file content
    nCreated,   \* number of approval files written so far
    issued,     \* ids returned by create_approval_request, in call order
    w,          \* the thread running the wrapped executor.execute
    nTasks,     \* number of tasks the wrapped executor has been given
    lastOp,     \* the manager operation performed by the last step
    steps,      \* plan.steps of the plan being executed
    planStatus, \* plan.status
    iteration,  \* the loop counter of execute_plan_iteratively
    pc,         \* where execute_plan_iteratively is
    cur,        \* index of the step being executed, 0 when none
    result,     \* the StepResult of the last executed step
    persisted,  \* the plan file as last written by _write_plan_markdown
    config,     \* the WatcherConfig the service was constructed with
    clock,      \* datetime.now(), in half seconds
    processed_files, \* InboxEventHandler.processed_files: path -> time
    event_queue,     \* FileWatcherService.event_queue
    enqueued,   \* the <<path, time>> of every event put on the queue, in order
    delivered,  \* the paths the queue processor took, in order
    lastEvent,  \* the last creation notification and what became of it
    proc,       \* the service's running flag and its QueueProcessor thread
    recovery,   \* one failure and the strategies selected for it
    approval_rules, \* TaskRouter.approval_rules
    vault,      \* the orchestrator's queue directories: path -> content
    orch_queue, \* Orchestrator.event_queue
    metrics,    \* Orchestrator.metrics
    orch_now,   \* datetime.now() of the orchestrator, in seconds
    ev,         \* the event thread (_process_events)
    ex,         \* the execution thread (_execute_tasks), its last message
    nEvents,    \* number of events submitted so far
    nAppended,  \* number of entries appended to recent_activity so far
    executed,   \* the tasks Executor.execute_task has run, in order
    state_file, \* whatsapp_state.json
    wa,         \* the threads calling the WhatsApp StateManager
    wa_done,    \* the updating calls that have returned, in order
    nUpdates    \* number of updating calls made so far

approvalVars == <<pending, done, nCreated, issued, w, nTasks, lastOp>>

engineVars == <<steps, planStatus, iteration, pc, cur, result, persisted>>

watcherVars ==
    <<config, clock, processed_files, event_queue, enqueued, delivered,
      lastEvent, proc>>

recoveryVars == <<recovery>>

orchVars ==
    <<approval_rules, vault, orch_queue, metrics, orch_now, ev, ex, nEvents,
      nAppended, executed>>

whatsappVars == <<state_file, wa, wa_done, nUpdates>>

nonApprovalVars ==
    <<engineVars, watcherVars, recoveryVars, orchVars, whatsappVars>>

nonEngineVars ==
    <<approvalVars, watcherVars, recoveryVars, orchVars, whatsappVars>>

nonWatcherVars ==
    <<approvalVars, engineVars, recoveryVars, orchVars, whatsappVars>>

nonRecoveryVars ==
    <<approvalVars, engineVars, watcherVars, orchVars, whatsappVars>>

nonOrchVars ==
    <<approvalVars, engineVars, watcherVars, recoveryVars, whatsappVars>>

nonWhatsappVars ==
    <<approvalVars, engineVars, watcherVars, recoveryVars, orchVars>>

vars == <<pending, done, nCreated, issued, w, nTasks, lastOp,
          steps, planStatus, iteration, pc, cur, result, persisted,
          config, clock, processed_files, event_queue, enqueued, delivered,
          lastEvent, proc, recovery, approval_rules, vault, orch_queue, metrics,
          orch_now, ev, ex, nEvents, nAppended, executed, state_file, wa,
          wa_done, nUpdates>>

(***************************************************************************)
(* Approval rules and task classification.                                 *)
(***************************************************************************)
\* default rules of _load_approval_rules
sensitive_actions ==
    {"send_email", "post_linkedin", "post_twitter", "external_api_call",
     "delete_file", "database_write", "financial_transaction"}

always_require_approval == {"financial_transaction", "database_write"}

\* values of the ActionType enum
ActionType ==
    {"email", "linkedin_post", "twitter_post", "api_call", "file_delete",
     "database_write", "financial", "system_config"}

company_domains == {"company.com"}

pii_patterns ==
    {"ssn", "social security", "credit card", "card number", "password",
     "secret", "bank account"}

\* str.lower on the words the task contents are made of
Lower(word) ==
    CASE word = "SSN" -> "ssn"
      [] word = "Password" -> "password"
      [] OTHER -> word

\* content is a sequence of words; a pattern occurs in it when one of the
\* lower-cased words is the pattern
_contains_pii(content) ==
    \E i \in 1..Len(content) : Lower(content[i]) \in pii_patterns

\* a recipient is <<local, domain>>, or <<local>> when it has no "@"
_has_external_recipients(recipients) ==
    \E i \in 1..Len(recipients) :
        LET r == recipients[i]
            domain == IF Len(r) > 1 THEN r[Len(r)] ELSE ""
        IN  domain \notin company_domains

_violates_policy(task) ==
    \/ /\ task.action_type = "send_email"
       /\ \/ _contains_pii(task.content)
          \/ _has_external_recipients(task.recipients)
    \/ /\ task.action_type = "financial_transaction"
       /\ task.amount > AmountThreshold
    \/ task.action_type \in {"post_linkedin", "post_twitter"}

\* a classification that does not look at the reversibility
is_sensitive_action_any_reversibility(task) ==
    \/ task.action_type \in sensitive_actions
    \/ task.action_type \in always_require_approval
    \/ task.impact_level \in {"high", "critical"}
    \/ task.data_sensitivity \in {"high", "pii"}

is_sensitive_action(task) ==
    \/ task.action_type \in sensitive_actions
    \/ task.action_type \in always_require_approval
    \/ task.impact_level \in {"high", "critical"}
    \/ task.data_sensitivity \in {"high", "pii"}
    \/ task.reversibility = "irreversible"
    \/ _violates_policy(task)

\* timeout_by_priority with the default_timeout fallback
TimeoutByPriority(priority) ==
    CASE priority = "low" -> TimeoutLow
      [] priority = "medium" -> TimeoutMedium
      [] priority = "high" -> TimeoutHigh
      [] priority = "critical" -> TimeoutCritical
      [] OTHER -> DefaultTimeout

MkTask(at, prio, impact, sens, rev) ==
    [action_type |-> at, priority |-> prio, impact_level |-> impact,
     data_sensitivity |-> sens, reversibility |-> rev,
     content |-> <<>>, recipients |-> <<>>, amount |-> 0]

\* the tasks handed to the executor and to create_approval_request
TaskInputs ==
    { MkTask("database_write", "critical", "low", "none", "reversible"),
      MkTask("send_email", "high", "medium", "none", "reversible"),
      MkTask("email", "low", "medium", "pii", "reversible"),
      MkTask("api_call", "medium", "low", "none", "reversible") }

NoTask == MkTask("", "", "", "", "")

(***************************************************************************)
(* Approval files.                                                         *)
(***************************************************************************)
Ids == 1..MaxRequests

Suffixes == {"EXECUTED", "REJECTED", "EXPIRED"}

\* a file: the header status, the request that wrote it (its created_at and
\* body), and expires_at - created_at
NoFile == [status |-> "NONE", req |-> 0, expires_in |-> 0]

Exists(f) == f # NoFile

\* headers a human can save: a decision, a status that is no ApprovalStatus
\* (or a decided_at that is no ISO date), or a text without front matter
HumanHeaders == {"APPROVED", "REJECTED", "BADSTATUS", "NOHEADER"}

\* a reader that takes any header it cannot read for an approval
_read_approval_decision_lenient(f) ==
    CASE f.status = "NOHEADER" -> "APPROVED"
      [] f.status = "BADSTATUS" -> "APPROVED"
      [] OTHER -> f.status

\* _read_approval_decision: the status of the decision it returns, "RAISE"
\* when ApprovalStatus(...) or fromisoformat raise
_read_approval_decision(f) ==
    CASE f.status = "NOHEADER" -> "PENDING"
      [] f.status = "BADSTATUS" -> "RAISE"
      [] OTHER -> f.status

\* _generate_approval_id: the number of files in Needs_Approval plus one
_generate_approval_id(pend) ==
    Cardinality({i \in DOMAIN pend : Exists(pend[i])}) + 1

NoOp == [op |-> "none", id |-> 0, status |-> ""]

IdleWorker ==
    [pc |-> "idle", task |-> NoTask, id |-> 0, req |-> 0, elapsed |-> 0,
     timeout |-> 0, result |-> "NONE", read |-> "NONE", inTime |-> TRUE,
     created |-> FALSE, invoked |-> FALSE, touched |-> FALSE]

ApprovalIdle ==
    /\ pending = [i \in Ids |-> NoFile]
    /\ done = [k \in Ids \X Suffixes |-> NoFile]
    /\ nCreated = 0
    /\ issued = <<>>
    /\ w = IdleWorker
    /\ nTasks = 0
    /\ lastOp = NoOp

(***************************************************************************)
(* ApprovalManager operations on the two directories.                      *)
(***************************************************************************)
\* the enum conversions of create_approval_request raise ValueError for an
\* action_type that is no ActionType value
CanCreate(task) == task.action_type \in ActionType

\* the file create_approval_request writes
NewFile(task, serial) ==
    [status |-> "PENDING", req |-> serial,
     expires_in |-> TimeoutByPriority(task.priority)]

\* an archive that copies: the source stays in Needs_Approval
_archive_approval_copy(pend, dn, id, final_status) ==
    IF Exists(pend[id])
    THEN [pending |-> pend,
          done |-> [dn EXCEPT ![<<id, final_status>>] = pend[id]]]
    ELSE [pending |-> pend, done |-> dn]

\* _archive_approval: rename Needs_Approval/<id>.md to
\* Done/<id>-<final_status>.md (a rename replaces an existing target);
\* nothing happens when the source is missing
_archive_approval(pend, dn, id, final_status) ==
    IF Exists(pend[id])
    THEN [pending |-> [pend EXCEPT ![id] = NoFile],
          done |-> [dn EXCEPT ![<<id, final_status>>] = pend[id]]]
    ELSE [pending |-> pend, done |-> dn]

\* the status rewrite of _mark_expired: only a PENDING header is replaced
ExpiredHeader(f) ==
    IF f.status = "PENDING" THEN [f EXCEPT !.status = "EXPIRED"] ELSE f

\* _mark_expired: rewrite the header, then archive as EXPIRED
_mark_expired(pend, dn, id) ==
    IF Exists(pend[id])
    THEN _archive_approval([pend EXCEPT ![id] = ExpiredHeader(pend[id])],
                           dn, id, "EXPIRED")
    ELSE [pending |-> pend, done |-> dn]

\* a timeout check that lets one more poll through
TimedOutLate(elapsed, timeout_seconds) ==
    elapsed > timeout_seconds + PollInterval

\* the timeout check of monitor_approval
TimedOut(elapsed, timeout_seconds) == elapsed > timeout_seconds

\* the timeout the wrapped executor monitors with: it passes none, so
\* monitor_approval falls back to default_timeout
IntegrationTimeout(task) == DefaultTimeout

\* a wrapper that executes a rejected action
IntegrationBranchRejectedRuns(status) ==
    CASE status = "APPROVED" -> "execute"
      [] status = "REJECTED" -> "execute"
      [] OTHER -> "expired"

\* a wrapper whose last branch executes
IntegrationBranchFallThrough(status) ==
    CASE status = "APPROVED" -> "execute"
      [] status = "REJECTED" -> "rejected"
      [] OTHER -> "execute"

\* what execute_with_approval_check does with the monitor's status
IntegrationBranch(status) ==
    CASE status = "APPROVED" -> "execute"
      [] status = "REJECTED" -> "rejected"
      [] OTHER -> "expired"

ArchiveOp(id, final_status) ==
    [op |-> "archive", id |-> id, status |-> final_status]

\* a change made by somebody else to the file the worker is monitoring
Touch(id) ==
    IF w.pc \in {"poll", "executing"} /\ w.id = id
    THEN [w EXCEPT !.touched = TRUE]
    ELSE w

(***************************************************************************)
(* execute_with_approval_check, one task at a time.                        *)
(***************************************************************************)
WorkerFree == w.pc \in {"idle", "returned", "raised"}

\* a task that needs no approval is executed directly
ExecuteDirect(task) ==
    /\ UNCHANGED nonApprovalVars
    /\ WorkerFree /\ nTasks < MaxTasks
    /\ ~is_sensitive_action(task)
    /\ w' = [IdleWorker EXCEPT !.pc = "returned", !.task = task,
                               !.invoked = TRUE]
    /\ nTasks' = nTasks + 1
    /\ lastOp' = NoOp
    /\ UNCHANGED <<pending, done, nCreated, issued>>

\* create_approval_request raises: the exception leaves the wrapper
ExecuteCreateRaises(task) ==
    /\ UNCHANGED nonApprovalVars
    /\ WorkerFree /\ nTasks < MaxTasks
    /\ is_sensitive_action(task)
    /\ ~CanCreate(task)
    /\ w' = [IdleWorker EXCEPT !.pc = "raised", !.task = task]
    /\ nTasks' = nTasks + 1
    /\ lastOp' = NoOp
    /\ UNCHANGED <<pending, done, nCreated, issued>>

\* a sensitive task: create the request and enter monitor_approval
ExecuteSensitive(task) ==
    /\ UNCHANGED nonApprovalVars
    /\ WorkerFree /\ nTasks < MaxTasks
    /\ nCreated < MaxRequests
    /\ is_sensitive_action(task)
    /\ CanCreate(task)
    /\ LET id == _generate_approval_id(pending)
       IN  /\ pending' = [pending EXCEPT ![id] = NewFile(task, nCreated + 1)]
           /\ issued' = Append(issued, id)
           /\ w' = [IdleWorker EXCEPT !.pc = "poll", !.task = task,
                        !.id = id, !.req = nCreated + 1,
                        !.timeout = IntegrationTimeout(task),
                        !.created = TRUE]
           /\ lastOp' = [op |-> "create", id |-> id, status |-> "PENDING"]
    /\ nCreated' = nCreated + 1
    /\ nTasks' = nTasks + 1
    /\ UNCHANGED done

\* the wrapper's branch on the status monitor_approval returned; pend and dn
\* are the directories as the monitor left them
Integrate(status, read, pend, dn, op) ==
    LET br == IntegrationBranch(status)
        ar == _archive_approval(pend, dn, w.id, "REJECTED")
        \* history: what the last poll read, and whether that poll was
        \* taken within timeout_seconds; the elapsed time is kept only for
        \* an expiry
        w1 == [w EXCEPT !.result = status, !.read = read,
                        !.inTime = (w.elapsed <= w.timeout),
                        !.elapsed = IF status = "EXPIRED" THEN w.elapsed
                                    ELSE 0]
    IN  CASE br = "execute" ->
                /\ w' = [w1 EXCEPT !.pc = "executing", !.invoked = TRUE]
                /\ pending' = pend /\ done' = dn
                /\ lastOp' = op
          [] br = "rejected" ->
                /\ w' = [w1 EXCEPT !.pc = "returned"]
                /\ pending' = ar.pending /\ done' = ar.done
                /\ lastOp' = ArchiveOp(w.id, "REJECTED")
          [] OTHER ->
                /\ w' = [w1 EXCEPT !.pc = "returned"]
                /\ pending' = pend /\ done' = dn
                /\ lastOp' = op

\* monitor_approval, a poll past the timeout: expire and return EXPIRED
PollExpired ==
    /\ UNCHANGED nonApprovalVars
    /\ w.pc = "poll"
    /\ TimedOut(w.elapsed, w.timeout)
    /\ LET me == _mark_expired(pending, done, w.id)
           op == IF Exists(pending[w.id]) THEN ArchiveOp(w.id, "EXPIRED")
                 ELSE NoOp
       IN  Integrate("EXPIRED", "NONE", me.pending, me.done, op)
    /\ UNCHANGED <<nCreated, issued, nTasks>>

\* monitor_approval, the file is gone: return REJECTED without a decision
PollMissing ==
    /\ UNCHANGED nonApprovalVars
    /\ w.pc = "poll"
    /\ ~TimedOut(w.elapsed, w.timeout)
    /\ ~Exists(pending[w.id])
    /\ Integrate("REJECTED", "MISSING", pending, done, NoOp)
    /\ UNCHANGED <<nCreated, issued, nTasks>>

\* monitor_approval, the header holds a decision: return it
PollDecided ==
    /\ UNCHANGED nonApprovalVars
    /\ w.pc = "poll"
    /\ ~TimedOut(w.elapsed, w.timeout)
    /\ Exists(pending[w.id])
    /\ LET st == _read_approval_decision(pending[w.id])
       IN  /\ st \in {"APPROVED", "REJECTED"}
           /\ Integrate(st, st, pending, done, NoOp)
    /\ UNCHANGED <<nCreated, issued, nTasks>>

\* monitor_approval, still pending (or the read raised): sleep
PollSleep ==
    /\ UNCHANGED nonApprovalVars
    /\ w.pc = "poll"
    /\ ~TimedOut(w.elapsed, w.timeout)
    /\ Exists(pending[w.id])
    /\ _read_approval_decision(pending[w.id]) \notin {"APPROVED", "REJECTED"}
    /\ w' = [w EXCEPT !.elapsed = w.elapsed + PollInterval]
    /\ lastOp' = NoOp
    /\ UNCHANGED <<pending, done, nCreated, issued, nTasks>>

\* original_execute returns: archive the request as EXECUTED
OriginalExecuteReturns ==
    /\ UNCHANGED nonApprovalVars
    /\ w.pc = "executing"
    /\ LET ar == _archive_approval(pending, done, w.id, "EXECUTED")
       IN  /\ pending' = ar.pending /\ done' = ar.done
    /\ lastOp' = ArchiveOp(w.id, "EXECUTED")
    /\ w' = [w EXCEPT !.pc = "returned"]
    /\ UNCHANGED <<nCreated, issued, nTasks>>

\* original_execute raises: the exception leaves the wrapper
OriginalExecuteRaises ==
    /\ UNCHANGED nonApprovalVars
    /\ w.pc = "executing"
    /\ w' = [w EXCEPT !.pc = "raised"]
    /\ lastOp' = NoOp
    /\ UNCHANGED <<pending, done, nCreated, issued, nTasks>>

(***************************************************************************)
(* The human reviewer.                                                     *)
(***************************************************************************)
\* the human saves the file with another header
HumanEdit(id, header) ==
    /\ UNCHANGED nonApprovalVars
    /\ Exists(pending[id])
    /\ pending[id].status # header
    /\ pending' = [pending EXCEPT ![id].status = header]
    /\ w' = Touch(id)
    /\ lastOp' = NoOp
    /\ UNCHANGED <<done, nCreated, issued, nTasks>>

\* the human deletes the file
HumanDelete(id) ==
    /\ UNCHANGED nonApprovalVars
    /\ Exists(pending[id])
    /\ pending' = [pending EXCEPT ![id] = NoFile]
    /\ w' = Touch(id)
    /\ lastOp' = NoOp
    /\ UNCHANGED <<done, nCreated, issued, nTasks>>

(***************************************************************************)
(* The manager's operations called directly.                               *)
(***************************************************************************)
\* a direct call of create_approval_request
DirectCreate(task) ==
    /\ UNCHANGED nonApprovalVars
    /\ nCreated < MaxRequests
    /\ CanCreate(task)
    /\ LET id == _generate_approval_id(pending)
       IN  /\ pending' = [pending EXCEPT ![id] = NewFile(task, nCreated + 1)]
           /\ issued' = Append(issued, id)
           /\ w' = w
           /\ lastOp' = [op |-> "create", id |-> id, status |-> "PENDING"]
    /\ nCreated' = nCreated + 1
    /\ UNCHANGED <<done, nTasks>>

\* a direct call of _archive_approval
DirectArchive(id, final_status) ==
    /\ UNCHANGED nonApprovalVars
    /\ LET ar == _archive_approval(pending, done, id, final_status)
       IN  /\ pending' = ar.pending /\ done' = ar.done
    /\ lastOp' = ArchiveOp(id, final_status)
    /\ UNCHANGED <<w, nCreated, issued, nTasks>>

\* one iteration of the loop of monitor_approval
MonitorStep == PollExpired \/ PollMissing \/ PollDecided \/ PollSleep

\* the first task handed to the wrapped executor, a sensitive one
ExecuteFirstSensitive(task) == nTasks = 0 /\ ExecuteSensitive(task)

NextMonitor ==
    \/ \E task \in TaskInputs : ExecuteFirstSensitive(task)
    \/ PollExpired
    \/ PollMissing
    \/ PollDecided
    \/ PollSleep
    \/ OriginalExecuteReturns
    \/ OriginalExecuteRaises
    \/ \E id \in Ids, header \in HumanHeaders : HumanEdit(id, header)
    \/ \E id \in Ids : HumanDelete(id)

(***************************************************************************)
(* is_sensitive_action called directly.                                    *)
(***************************************************************************)
\* the task dictionaries handed to is_sensitive_action
ClassifyInputs ==
    { [MkTask(at, "medium", impact, sens, rev)
          EXCEPT !.content = content, !.recipients = recipients,
                 !.amount = amount] :
        at \in {"read_file", "send_email", "financial_transaction",
                "post_linkedin", "post_twitter", "database_write"},
        impact \in {"low", "medium", "high", "critical"},
        sens \in {"none", "high", "pii"},
        rev \in {"reversible", "irreversible"},
        content \in {<<>>, <<"quarterly", "report">>, <<"my", "Password">>},
        recipients \in {<<>>, << <<"bob", "company.com">> >>,
                        << <<"bob", "company.com">>, <<"eve", "other.org">> >>,
                        << <<"nobody">> >>},
        amount \in {AmountThreshold, AmountThreshold + 1} }

\* is_sensitive_action(task) and _violates_policy(task), the answers kept
\* in the worker record
Classify(task) ==
    /\ UNCHANGED nonApprovalVars
    /\ w.pc = "idle"
    /\ w' = [IdleWorker EXCEPT
                !.pc = "classified", !.task = task,
                !.result = IF is_sensitive_action(task) THEN "SENSITIVE"
                           ELSE "NOT_SENSITIVE",
                !.read = IF _violates_policy(task) THEN "POLICY"
                         ELSE "NO_POLICY"]
    /\ UNCHANGED <<pending, done, nCreated, issued, nTasks, lastOp>>

NextClassify == \E task \in ClassifyInputs : Classify(task)

NextApproval ==
    \/ \E task \in TaskInputs : ExecuteDirect(task)
    \/ \E task \in TaskInputs : ExecuteCreateRaises(task)
    \/ \E task \in TaskInputs : ExecuteSensitive(task)
    \/ PollExpired
    \/ PollMissing
    \/ PollDecided
    \/ PollSleep
    \/ OriginalExecuteReturns
    \/ OriginalExecuteRaises
    \/ \E id \in Ids, header \in HumanHeaders : HumanEdit(id, header)
    \/ \E id \in Ids : HumanDelete(id)


NextManager ==
    \/ \E task \in TaskInputs : DirectCreate(task)
    \/ \E id \in Ids, st \in Suffixes : DirectArchive(id, st)


(***************************************************************************)
(* IterativeReasoningEngine: the plan and its steps.                       *)
(***************************************************************************)
StepStatus ==
    {"PENDING", "IN_PROGRESS", "COMPLETED", "FAILED", "SKIPPED", "BLOCKED"}

\* a step: its id is its index in plan.steps; dependencies is the set of ids
\* it lists, 0 being an id that names no step of the plan; has_actions is
\* whether its action list is non-empty; is_critical has its default
MkStep(deps, max_attempts, has_actions) ==
    [status |-> "PENDING", dependencies |-> deps, attempts |-> 0,
     max_attempts |-> max_attempts, has_actions |-> has_actions,
     is_critical |-> TRUE]

NoResult ==
    [status |-> "NONE", confidence |-> DefaultConfidence,
     suggests_better_approach |-> FALSE]

\* what _generate_plan_markdown shows of the plan
PlanDocument(plan_steps, plan_status) ==
    [status |-> plan_status,
     steps |-> [i \in 1..Len(plan_steps) |->
                   [status |-> plan_steps[i].status,
                    attempts |-> plan_steps[i].attempts]]]

EngineIdle ==
    /\ steps = <<>>
    /\ planStatus = "NOT_STARTED"
    /\ iteration = 0
    /\ pc = "idle"
    /\ cur = 0
    /\ result = NoResult
    /\ persisted = PlanDocument(<<>>, "NOT_STARTED")

\* the dependency lists a step of an n-step plan may carry
DepSets(n) == {d \in SUBSET (0..n) : Cardinality(d) <= MaxDeps}

\* a plan of n steps: the first step has max_attempts first and the other
\* steps the largest; the first step has no actions when empty; the last
\* step is BLOCKED when variant is "BLOCKED"; the second step has
\* max_attempts 0 when variant is "SPENT"
PlanOf(n, deps, first, empty, variant) ==
    [i \in 1..n |->
        [MkStep(deps[i],
                IF variant = "SPENT" /\ i = 2 THEN 0
                ELSE IF i = 1 THEN first ELSE MaxAttempts,
                ~(empty /\ i = 1))
            EXCEPT !.status = IF variant = "BLOCKED" /\ i = n THEN "BLOCKED"
                              ELSE "PENDING"]]

\* a Plan object handed to execute_plan_iteratively
InitEngineCore ==
    /\ \E n \in 1..MaxSteps :
         \E deps \in [1..n -> DepSets(n)] :
            /\ \A i \in 1..n : i \notin deps[i]
            /\ \E first \in 1..MaxAttempts, empty \in BOOLEAN,
                  variant \in {"PENDING", "BLOCKED", "SPENT"} :
                  steps = PlanOf(n, deps, first, empty, variant)
    /\ planStatus = "NOT_STARTED"
    /\ iteration = 0
    /\ pc = "start"
    /\ cur = 0
    /\ result = NoResult
    /\ persisted = PlanDocument(steps, "NOT_STARTED")

(***************************************************************************)
(* Helper methods of the engine.                                           *)
(***************************************************************************)
\* a dependency check that only looks for failed dependencies
_are_dependencies_met_unless_failed(step, plan_steps) ==
    \A dep_id \in step.dependencies :
        dep_id \in 1..Len(plan_steps) => plan_steps[dep_id].status # "FAILED"

\* a dependency check that skips ids naming no step
_are_dependencies_met_skip_unknown(step, plan_steps) ==
    \A dep_id \in step.dependencies :
        dep_id \in 1..Len(plan_steps)
            => plan_steps[dep_id].status = "COMPLETED"

_are_dependencies_met(step, plan_steps) ==
    \A dep_id \in step.dependencies :
        /\ dep_id \in 1..Len(plan_steps)
        /\ plan_steps[dep_id].status = "COMPLETED"

\* _get_next_step walks the steps in order: a PENDING step with met
\* dependencies is returned if it has attempts left and marked FAILED if not.
\* Selection(plan_steps) is <<index of the returned step or 0, the steps as
\* the walk leaves them>>.
RECURSIVE Walk(_, _)
Walk(plan_steps, i) ==
    IF i > Len(plan_steps) THEN <<0, plan_steps>>
    ELSE LET step == plan_steps[i]
         IN  IF step.status # "PENDING" THEN Walk(plan_steps, i + 1)
             ELSE IF ~_are_dependencies_met(step, plan_steps)
                  THEN Walk(plan_steps, i + 1)
             ELSE IF step.attempts >= step.max_attempts
                  THEN Walk([plan_steps EXCEPT ![i].status = "FAILED"], i + 1)
             ELSE <<i, plan_steps>>

\* a selection that returns the first PENDING step with met dependencies,
\* whatever its attempts
_get_next_step_any_attempts(plan_steps) ==
    LET ready == {i \in 1..Len(plan_steps) :
                     /\ plan_steps[i].status = "PENDING"
                     /\ _are_dependencies_met(plan_steps[i], plan_steps)}
    IN  IF ready = {} THEN <<0, plan_steps>>
        ELSE <<CHOOSE i \in ready : \A j \in ready : i <= j, plan_steps>>

\* a selection that takes FAILED steps up again
_get_next_step_retry_failed(plan_steps) ==
    LET ready == {i \in 1..Len(plan_steps) :
                     /\ plan_steps[i].status \in {"PENDING", "FAILED"}
                     /\ _are_dependencies_met(plan_steps[i], plan_steps)}
    IN  IF ready = {} THEN <<0, plan_steps>>
        ELSE <<CHOOSE i \in ready : \A j \in ready : i <= j, plan_steps>>

_get_next_step(plan_steps) == Walk(plan_steps, 1)

_is_plan_complete(plan_steps) ==
    \A i \in 1..Len(plan_steps) :
        plan_steps[i].status \in {"COMPLETED", "FAILED", "SKIPPED"}

_has_blocked_steps(plan_steps) ==
    \E i \in 1..Len(plan_steps) : plan_steps[i].status = "BLOCKED"

\* _validate_step_outputs: one output per action, so some output exists
\* exactly when the step has an action
_validate_step_outputs(step) == step.has_actions

\* a failure handler that counts the failed attempt once more
_handle_step_failure_recount(step) ==
    IF step.attempts < step.max_attempts
    THEN [step |-> [step EXCEPT !.status = "PENDING",
                                !.attempts = step.attempts + 1],
          result |-> [NoResult EXCEPT !.status = "RETRY"]]
    ELSE [step |-> [step EXCEPT !.status = "FAILED",
                                !.attempts = step.attempts + 1],
          result |-> [NoResult EXCEPT !.status = "FAILED"]]

\* a failure handler that forgets to reset the status for a retry
_handle_step_failure_no_reset(step) ==
    IF step.attempts < step.max_attempts
    THEN [step |-> step,
          result |-> [NoResult EXCEPT !.status = "RETRY"]]
    ELSE [step |-> [step EXCEPT !.status = "FAILED"],
          result |-> [NoResult EXCEPT !.status = "FAILED"]]

\* _handle_step_failure: the step and the StepResult it leaves
_handle_step_failure(step) ==
    IF step.attempts < step.max_attempts
    THEN [step |-> [step EXCEPT !.status = "PENDING"],
          result |-> [NoResult EXCEPT !.status = "RETRY"]]
    ELSE [step |-> [step EXCEPT !.status = "FAILED"],
          result |-> [NoResult EXCEPT !.status = "FAILED"]]

_should_replan(plan_steps, res) ==
    \/ Cardinality({i \in 1..Len(plan_steps) :
                       plan_steps[i].status = "FAILED"}) >= 2
    \/ res.suggests_better_approach

_requires_human_intervention(res) ==
    res.status = "FAILED" /\ res.confidence < ConfidenceThreshold

CompletedCount(plan_steps) ==
    Cardinality({i \in 1..Len(plan_steps) :
                    plan_steps[i].status = "COMPLETED"})

\* a finalisation that wants more than 80%
_finalize_plan_strict(plan_steps) ==
    LET completed == CompletedCount(plan_steps)
        total == Len(plan_steps)
    IN  IF completed = total THEN "COMPLETED"
        ELSE IF completed * 10 > total * 8 THEN "COMPLETED"
        ELSE "FAILED"

\* _finalize_plan: the status it gives the plan (completed >= total * 0.8,
\* in tenths)
_finalize_plan(plan_steps) ==
    LET completed == CompletedCount(plan_steps)
        total == Len(plan_steps)
    IN  IF completed = total THEN "COMPLETED"
        ELSE IF completed * 10 >= total * 8 THEN "COMPLETED"
        ELSE "FAILED"

(***************************************************************************)
(* execute_plan_iteratively.                                               *)
(***************************************************************************)
\* the budget is computed from the first step's max_attempts
max_iterations == Len(steps) * steps[1].max_attempts

\* entry: mark the plan IN_PROGRESS and write it
StartExecution ==
    /\ UNCHANGED nonEngineVars
    /\ pc = "start"
    /\ planStatus' = "IN_PROGRESS"
    /\ persisted' = PlanDocument(steps, "IN_PROGRESS")
    /\ iteration' = 0
    /\ pc' = "loop"
    /\ UNCHANGED <<steps, cur, result>>

\* the while condition fails: leave the loop
LoopExit ==
    /\ UNCHANGED nonEngineVars
    /\ pc = "loop"
    /\ _is_plan_complete(steps) \/ iteration >= max_iterations
    /\ pc' = "finalize"
    /\ UNCHANGED <<steps, planStatus, iteration, cur, result, persisted>>

\* an iteration that finds no executable step: handle a blocked plan, break
NoExecutableStep ==
    /\ UNCHANGED nonEngineVars
    /\ pc = "loop"
    /\ ~_is_plan_complete(steps) /\ iteration < max_iterations
    /\ LET sel == _get_next_step(steps)
       IN  /\ sel[1] = 0
           /\ steps' = sel[2]
           /\ planStatus' = IF _has_blocked_steps(sel[2]) THEN "BLOCKED"
                            ELSE planStatus
    /\ iteration' = iteration + 1
    /\ pc' = "finalize"
    /\ UNCHANGED <<cur, result, persisted>>

\* an iteration that finds a step: _execute_step marks it IN_PROGRESS,
\* counts the attempt, writes the plan and starts the step's actions
StartStep ==
    /\ UNCHANGED nonEngineVars
    /\ pc = "loop"
    /\ ~_is_plan_complete(steps) /\ iteration < max_iterations
    /\ LET sel == _get_next_step(steps)
           i == sel[1]
       IN  /\ i # 0
           /\ steps' = [sel[2] EXCEPT ![i].status = "IN_PROGRESS",
                                      ![i].attempts = sel[2][i].attempts + 1]
           /\ cur' = i
    /\ persisted' = PlanDocument(steps', planStatus)
    /\ iteration' = iteration + 1
    /\ pc' = "running"
    /\ UNCHANGED <<planStatus, result>>

\* the rest of the iteration once the step's outcome is known: write the
\* plan, replan when needed, stop for human intervention when needed
AfterStep(new_steps, res) ==
    /\ steps' = new_steps
    /\ result' = res
    /\ persisted' = PlanDocument(new_steps, planStatus)
    /\ cur' = 0
    /\ IF _requires_human_intervention(res)
       THEN planStatus' = "AWAITING_APPROVAL" /\ pc' = "finalize"
       ELSE /\ planStatus' = IF _should_replan(new_steps, res)
                             THEN "AWAITING_APPROVAL" ELSE planStatus
            /\ pc' = "loop"
    /\ UNCHANGED iteration

\* every action returned and the outputs validate
StepSucceeds ==
    /\ UNCHANGED nonEngineVars
    /\ pc = "running"
    /\ _validate_step_outputs(steps[cur])
    /\ AfterStep([steps EXCEPT ![cur].status = "COMPLETED"],
                 [NoResult EXCEPT !.status = "SUCCESS"])

\* an action raised, or the outputs do not validate
StepFails ==
    /\ UNCHANGED nonEngineVars
    /\ pc = "running"
    /\ LET h == _handle_step_failure(steps[cur])
       IN  AfterStep([steps EXCEPT ![cur] = h.step], h.result)

\* _finalize_plan: set the final status and write the plan
FinalizePlan ==
    /\ UNCHANGED nonEngineVars
    /\ pc = "finalize"
    /\ planStatus' = _finalize_plan(steps)
    /\ persisted' = PlanDocument(steps, planStatus')
    /\ pc' = "done"
    /\ UNCHANGED <<steps, iteration, cur, result>>

NextEngine ==
    \/ StartExecution
    \/ LoopExit
    \/ NoExecutableStep
    \/ StartStep
    \/ StepSucceeds
    \/ StepFails
    \/ FinalizePlan

\* plans as the loop can leave them, handed to _finalize_plan
FinalInputs ==
    UNION { [1..n -> { [MkStep({}, DefaultMaxAttempts, TRUE)
                           EXCEPT !.status = st,
                                  !.attempts = IF st = "COMPLETED" THEN 1
                                               ELSE IF st = "FAILED"
                                                    THEN DefaultMaxAttempts
                                               ELSE 0] :
                       st \in {"PENDING", "COMPLETED", "FAILED", "BLOCKED"} }] :
            n \in 1..MaxFinalSteps }

InitFinalizeCore ==
    /\ steps \in FinalInputs
    /\ planStatus \in {"IN_PROGRESS", "AWAITING_APPROVAL", "BLOCKED"}
    /\ planStatus = "BLOCKED" => _has_blocked_steps(steps)
    /\ iteration = 0
    /\ pc = "finalize"
    /\ cur = 0
    /\ result = NoResult
    /\ persisted = PlanDocument(steps, planStatus)

(***************************************************************************)
(* File watcher: InboxEventHandler and the queue processor.                *)
(***************************************************************************)
\* a file name: hidden when it starts with ".", ext its last suffix
MkFile(base, ext, hidden) == [base |-> base, ext |-> ext, hidden |-> hidden]

\* task.md, data.txt, temp.tmp, .hidden and .notes.md
Files ==
    { MkFile("task", ".md", FALSE), MkFile("data", ".txt", FALSE),
      MkFile("temp", ".tmp", FALSE), MkFile("hidden", "", TRUE),
      MkFile("notes", ".md", TRUE) }

\* a creation notification, what became of it and what on_created returned
NoFileEvent ==
    [file |-> MkFile("", "", FALSE), time |-> 0, outcome |-> "none",
     returned |-> ""]

\* WatcherConfig defaults; a pattern is "*" + ext, or ".*"
watch_patterns == {"*.md", "*.txt"}

ignore_patterns == {"*.tmp", ".*"}

\* Path.match for these patterns
PathMatch(f, pattern) ==
    IF pattern = ".*" THEN f.hidden
    ELSE f.ext # "" /\ pattern = "*" \o f.ext

\* the default WatcherConfig
WatcherConfig ==
    [watch_patterns |-> watch_patterns, ignore_patterns |-> ignore_patterns]

\* the pattern lists a service is configured with
ConfigInputs ==
    { WatcherConfig,
      [watch_patterns |-> {"*.md"}, ignore_patterns |-> {"*.tmp", ".*"}],
      [watch_patterns |-> {"*.md", "*.txt"}, ignore_patterns |-> {"*.md"}],
      [watch_patterns |-> {}, ignore_patterns |-> {}] }

\* a filter that looks at the watch patterns first
_should_process_file_watch_first(f) ==
    IF \E pattern \in config.watch_patterns : PathMatch(f, pattern) THEN TRUE
    ELSE FALSE

_should_process_file(f) ==
    IF \E pattern \in config.ignore_patterns : PathMatch(f, pattern)
    THEN FALSE
    ELSE \E pattern \in config.watch_patterns : PathMatch(f, pattern)

\* an event queue without a capacity
QueueFullNever(q) == FALSE

\* queue.Queue(maxsize).full() for the maxsize the service passes
QueueFull(q) == Len(q) >= MaxQueue

\* no entry in processed_files
Never == -1

\* a debounce check that looks for old entries
_is_recently_processed_old(f, pf, now) ==
    /\ pf[f] # Never
    /\ now - pf[f] > DebounceTicks

\* a debounce check whose window includes its end
_is_recently_processed_inclusive(f, pf, now) ==
    /\ pf[f] # Never
    /\ now - pf[f] <= DebounceTicks

_is_recently_processed(f, pf, now) ==
    /\ pf[f] # Never
    /\ now - pf[f] < DebounceTicks

\* _mark_processed: record the time, then drop entries older than an hour
_mark_processed(f, pf, now) ==
    LET marked == [pf EXCEPT ![f] = now]
    IN  [g \in DOMAIN marked |->
            IF marked[g] # Never /\ marked[g] > now - CleanupTicks
            THEN marked[g] ELSE Never]

\* event_queue.get(timeout=1) gives up after a second
PollTicks == 2

\* a get without a timeout
GetTimedOutNever(waited) == FALSE

\* event_queue.get(timeout=1) raises queue.Empty
GetTimedOut(waited) == waited >= PollTicks

\* a processor that takes the newest path
get_newest(q) ==
    [file_path |-> q[Len(q)], rest |-> SubSeq(q, 1, Len(q) - 1)]

\* event_queue.get on a queue.Queue that holds something
get(q) == [file_path |-> Head(q), rest |-> Tail(q)]

\* what trigger_agent can do
TriggerOutcomes == {"True", "False", "raises"}

\* the service after start(): the QueueProcessor thread has found running
\* set and waits in get
ProcStarted ==
    [running |-> TRUE, pc |-> "get", waited |-> 0, stopped_at |-> Never,
     events_processed |-> 0]

\* the loop test of _process_queue: wait in get again, or leave
WhileRunning(p) ==
    [p EXCEPT !.pc = IF p.running THEN "get" ELSE "stopped", !.waited = 0]

\* the time a get that found the queue empty has waited, a tick later
Waited(p, q) ==
    IF p.pc = "get" /\ q = <<>> /\ ~GetTimedOut(p.waited)
    THEN [p EXCEPT !.waited = @ + 1] ELSE p

WatcherCore ==
    /\ clock = 0
    /\ processed_files = [f \in Files |-> Never]
    /\ event_queue = <<>>
    /\ enqueued = <<>>
    /\ delivered = <<>>
    /\ lastEvent = NoFileEvent
    /\ proc = ProcStarted

\* a service constructed with the default WatcherConfig
WatcherIdle == config = WatcherConfig /\ WatcherCore

Tick ==
    /\ UNCHANGED nonWatcherVars
    /\ clock < MaxClock
    /\ clock' = clock + 1
    /\ UNCHANGED <<config, processed_files, event_queue, enqueued,
                   delivered, lastEvent, proc>>

\* on_created, the file does not match the patterns
OnCreatedIgnored(f) ==
    /\ UNCHANGED <<nonWatcherVars, proc>>
    /\ ~_should_process_file(f)
    /\ lastEvent' = [file |-> f, time |-> clock, outcome |-> "ignored",
                     returned |-> "None"]
    /\ UNCHANGED <<config, clock, processed_files, event_queue, enqueued,
                   delivered>>

\* on_created, the path was processed within the debounce window
OnCreatedDebounced(f) ==
    /\ UNCHANGED <<nonWatcherVars, proc>>
    /\ _should_process_file(f)
    /\ _is_recently_processed(f, processed_files, clock)
    /\ lastEvent' = [file |-> f, time |-> clock, outcome |-> "debounced",
                     returned |-> "None"]
    /\ UNCHANGED <<config, clock, processed_files, event_queue, enqueued,
                   delivered>>

\* on_created, the path is marked processed and put on the queue
OnCreatedQueued(f) ==
    /\ UNCHANGED <<nonWatcherVars, proc>>
    /\ _should_process_file(f)
    /\ ~_is_recently_processed(f, processed_files, clock)
    /\ ~QueueFull(event_queue)
    /\ processed_files' = _mark_processed(f, processed_files, clock)
    /\ event_queue' = Append(event_queue, f)
    /\ enqueued' = Append(enqueued, <<f, clock>>)
    /\ lastEvent' = [file |-> f, time |-> clock, outcome |-> "queued",
                     returned |-> "None"]
    /\ UNCHANGED <<config, clock, delivered>>

\* an on_created that marks a path only once the put succeeded
OnCreatedDropped_unmarked(f) ==
    /\ UNCHANGED <<nonWatcherVars, proc>>
    /\ _should_process_file(f)
    /\ ~_is_recently_processed(f, processed_files, clock)
    /\ QueueFull(event_queue)
    /\ lastEvent' = [file |-> f, time |-> clock, outcome |-> "dropped",
                     returned |-> "None"]
    /\ UNCHANGED <<config, clock, processed_files, event_queue, enqueued,
                   delivered>>

\* on_created, the path is marked processed but the queue is full
OnCreatedDropped(f) ==
    /\ UNCHANGED <<nonWatcherVars, proc>>
    /\ _should_process_file(f)
    /\ ~_is_recently_processed(f, processed_files, clock)
    /\ QueueFull(event_queue)
    /\ processed_files' = _mark_processed(f, processed_files, clock)
    /\ lastEvent' = [file |-> f, time |-> clock, outcome |-> "dropped",
                     returned |-> "None"]
    /\ UNCHANGED <<config, clock, event_queue, enqueued, delivered>>

\* _process_queue takes the next path and hands it to trigger_agent
ProcessQueue(success) ==
    /\ UNCHANGED nonWatcherVars
    /\ proc.pc = "get"
    /\ event_queue # <<>>
    /\ delivered' = Append(delivered, get(event_queue).file_path)
    /\ event_queue' = get(event_queue).rest
    /\ proc' =
          WhileRunning([proc EXCEPT
                           !.events_processed =
                               IF success = "True" THEN @ + 1 ELSE @])
    /\ UNCHANGED <<config, clock, processed_files, enqueued, lastEvent>>

\* the get times out on an empty queue and the loop tests self.running
GetEmpty ==
    /\ UNCHANGED nonWatcherVars
    /\ proc.pc = "get"
    /\ event_queue = <<>>
    /\ GetTimedOut(proc.waited)
    /\ proc' = WhileRunning(proc)
    /\ UNCHANGED <<config, clock, processed_files, event_queue, enqueued,
                   delivered, lastEvent>>

\* stop() clears the flag (early enough for a poll timeout to pass)
Stop ==
    /\ UNCHANGED nonWatcherVars
    /\ proc.running
    /\ clock + PollTicks <= MaxClock
    /\ proc' = [proc EXCEPT !.running = FALSE, !.stopped_at = clock]
    /\ UNCHANGED <<config, clock, processed_files, event_queue, enqueued,
                   delivered, lastEvent>>

\* the processor thread is waiting in get, or has left: its other steps
\* take no time
ProcessorWaits ==
    \/ proc.pc = "stopped"
    \/ proc.pc = "get" /\ event_queue = <<>> /\ ~GetTimedOut(proc.waited)

\* half a second passes, counted by a processor thread that waits in get
TimedTick ==
    /\ UNCHANGED nonWatcherVars
    /\ ProcessorWaits
    /\ clock < MaxClock
    /\ clock' = clock + 1
    /\ proc' = Waited(proc, event_queue)
    /\ UNCHANGED <<config, processed_files, event_queue, enqueued,
                   delivered, lastEvent>>

NextWatcher ==
    \/ Tick
    \/ \E f \in Files : OnCreatedIgnored(f)
    \/ \E f \in Files : OnCreatedDebounced(f)
    \/ \E f \in Files : OnCreatedQueued(f)
    \/ \E f \in Files : OnCreatedDropped(f)
    \/ \E success \in TriggerOutcomes : ProcessQueue(success)

\* the service until it is stopped, the waits of its processor thread timed
NextShutdown ==
    \/ TimedTick
    \/ \E f \in Files : OnCreatedIgnored(f)
    \/ \E f \in Files : OnCreatedDebounced(f)
    \/ \E f \in Files : OnCreatedQueued(f)
    \/ \E f \in Files : OnCreatedDropped(f)
    \/ \E success \in TriggerOutcomes : ProcessQueue(success)
    \/ GetEmpty
    \/ Stop

\* the steps of the QueueProcessor thread
ProcessorStep ==
    \/ \E success \in TriggerOutcomes : ProcessQueue(success)
    \/ GetEmpty

(***************************************************************************)
(* Recovery strategy selection (agent_loop.py).                            *)
(***************************************************************************)
\* what assess_failure_impact can return
ImpactLevels == {"CRITICAL", "HIGH", "MEDIUM", "LOW"}

\* find_alternative_approach returns a step (its ordinal) or None (0)
Alternatives == 0..MaxSteps

Errors == {"timeout", "boom"}

RecoveryStrategy(type, reason, action, alternative_step) ==
    [type |-> type, reason |-> reason, action |-> action,
     alternative_step |-> alternative_step]

NoStrategy == RecoveryStrategy("NONE", "", "", 0)

\* a selector that aborts on HIGH impact even when an alternative exists
determine_recovery_strategy_high_aborts(impact, alternative) ==
    CASE impact \in {"CRITICAL", "HIGH"} ->
            RecoveryStrategy("ABORT",
                             "Critical step failed, cannot continue",
                             "Request human intervention", 0)
      [] impact = "MEDIUM" ->
            RecoveryStrategy("SKIP_AND_CONTINUE",
                             "Step failed but not critical",
                             "Continue with remaining steps", 0)
      [] OTHER ->
            RecoveryStrategy("CONTINUE", "Non-critical step failed",
                             "Continue with remaining steps", 0)

\* determine_recovery_strategy, given what assess_failure_impact and
\* find_alternative_approach returned
determine_recovery_strategy(impact, alternative) ==
    CASE impact = "CRITICAL" ->
            RecoveryStrategy("ABORT",
                             "Critical step failed, cannot continue",
                             "Request human intervention", 0)
      [] impact = "HIGH" ->
            IF alternative # 0
            THEN RecoveryStrategy("ALTERNATIVE",
                                  "Primary approach failed, trying alternative",
                                  "Execute alternative", alternative)
            ELSE RecoveryStrategy("ABORT",
                                  "No alternative approach available",
                                  "Request human intervention", 0)
      [] impact = "MEDIUM" ->
            RecoveryStrategy("SKIP_AND_CONTINUE",
                             "Step failed but not critical",
                             "Continue with remaining steps", 0)
      [] OTHER ->
            RecoveryStrategy("CONTINUE", "Non-critical step failed",
                             "Continue with remaining steps", 0)

\* a failed step, its error, and what the two analyses return for it
RecoveryInputs ==
    [impact : ImpactLevels, alternative : Alternatives,
     failed_step : 1..MaxSteps, error : Errors,
     calls : {0}, strategy : {NoStrategy}, previous : {NoStrategy}]

RecoveryIdle ==
    recovery = [impact |-> "LOW", alternative |-> 0, failed_step |-> 1,
                error |-> "boom", calls |-> 0, strategy |-> NoStrategy,
                previous |-> NoStrategy]

\* handle_step_failure with no attempt left: the strategy is selected
DetermineRecovery ==
    /\ UNCHANGED nonRecoveryVars
    /\ recovery.calls < MaxCalls
    /\ recovery' =
          [recovery EXCEPT
              !.calls = @ + 1,
              !.previous = recovery.strategy,
              !.strategy = determine_recovery_strategy(recovery.impact,
                                                       recovery.alternative)]

(***************************************************************************)
(* WhatsApp StateManager (whatsapp-node/state_manager.py).                 *)
(***************************************************************************)
\* add_message keeps the last 100 messages of a queue
QueueLimit == 100

WaThreads == {1, 2}

\* the part of whatsapp_state.json the updating operations work on
DefaultState ==
    [incoming |-> <<>>, approved |-> <<>>, total_incoming |-> 0,
     total_approved |-> 0, human_in_the_loop |-> FALSE]

\* the updating calls: add_message(m, INCOMING), move_message(id, INCOMING,
\* APPROVED) and set_config("human_in_the_loop", value)
UpdateCalls(next_id) ==
    [kind : {"add_message"}, id : {next_id}, value : {FALSE}]
    \cup [kind : {"move_message"}, id : 1..MaxUpdates, value : {FALSE}]
    \cup [kind : {"set_config"}, id : {0}, value : BOOLEAN]

NoCall == [kind |-> "none", id |-> 0, value |-> FALSE]

Last(q, n) == IF Len(q) > n THEN SubSeq(q, Len(q) - n + 1, Len(q)) ELSE q

\* q without its first element equal to x
RECURSIVE RemoveFirst(_, _)
RemoveFirst(q, x) ==
    IF q = <<>> THEN <<>>
    ELSE IF Head(q) = x THEN Tail(q)
    ELSE <<Head(q)>> \o RemoveFirst(Tail(q), x)

InQueue(q, x) == \E i \in 1..Len(q) : q[i] = x

\* the update function of add_message for an INCOMING message
add_message(state, id) ==
    [state EXCEPT !.incoming = Last(Append(@, id), QueueLimit),
                  !.approved = Last(@, QueueLimit),
                  !.total_incoming = @ + 1]

\* the update function of move_message from INCOMING to APPROVED
move_message(state, id) ==
    IF InQueue(state.incoming, id)
    THEN [state EXCEPT !.incoming = RemoveFirst(@, id),
                       !.approved = Append(@, id),
                       !.total_approved = @ + 1]
    ELSE state

\* the update function of set_config
set_config(state, value) == [state EXCEPT !.human_in_the_loop = value]

ApplyUpdate(state, call) ==
    CASE call.kind = "add_message" -> add_message(state, call.id)
      [] call.kind = "move_message" -> move_message(state, call.id)
      [] OTHER -> set_config(state, call.value)

WaIdleThread == [pc |-> "idle", state |-> DefaultState, call |-> NoCall]

WhatsAppIdle ==
    /\ state_file = DefaultState
    /\ wa = [t \in WaThreads |-> WaIdleThread]
    /\ wa_done = <<>>
    /\ nUpdates = 0

\* _update_state, first half: _read_state takes the lock, reads the file and
\* releases the lock; update_func then changes the thread's copy
UpdateRead(t, call) ==
    /\ UNCHANGED nonWhatsappVars
    /\ wa[t].pc = "idle"
    /\ nUpdates < MaxUpdates
    /\ wa' = [wa EXCEPT ![t] = [pc |-> "write",
                                 state |-> ApplyUpdate(state_file, call),
                                 call |-> call]]
    /\ nUpdates' = nUpdates + 1
    /\ UNCHANGED <<state_file, wa_done>>

\* _update_state, second half: _write_state takes the lock and writes the
\* thread's copy over the file; the call returns
UpdateWrite(t) ==
    /\ UNCHANGED nonWhatsappVars
    /\ wa[t].pc = "write"
    /\ state_file' = wa[t].state
    /\ wa_done' = Append(wa_done, wa[t].call)
    /\ wa' = [wa EXCEPT ![t] = WaIdleThread]
    /\ UNCHANGED nUpdates

NextWhatsApp ==
    \/ \E t \in WaThreads : \E call \in UpdateCalls(nUpdates + 1) :
          UpdateRead(t, call)
    \/ \E t \in WaThreads : UpdateWrite(t)

(***************************************************************************)
(* Orchestrator (core/orchestrator.py) with its task router, context       *)
(* loader, executor and state manager.                                     *)
(***************************************************************************)
\* _handle_event keeps the last 20 entries of recent_activity
ActivityCap == 20

\* _check_approval_required asks for approval below this confidence
ApprovalConfidence == 80

EventTypes == {"file_created", "scheduled"}

OrchDirs == {"Needs_Action", "Needs_Approval", "Done"}

\* _create_task_file names a file task-<second>-<event type>.md
TaskNames == (0..MaxSecond) \X EventTypes

Paths == OrchDirs \X TaskNames

Skills == {"email_responder", "report_generator"}

\* an event as a watcher submits it; "" stands for a key the event lacks
MkEvent(type, matched_skill, action_type, requires_mcp) ==
    [type |-> type, matched_skill |-> matched_skill,
     action_type |-> action_type, requires_mcp |-> requires_mcp]

\* events that carry a skill only
PlainEvents ==
    { MkEvent("file_created", "email_responder", "", FALSE),
      MkEvent("scheduled", "report_generator", "", FALSE) }

EventInputs ==
    {MkEvent(t, sk, a, m) : t \in EventTypes, sk \in {"", "report_generator"},
                            a \in {"", "send_email"}, m \in BOOLEAN}

NoEvent == [serial |-> 0, event |-> MkEvent("", "", "", FALSE)]

\* a rule of the rules file; "" stands for a key the rule lacks
Rule(skill, action_type, any_mcp_call) ==
    [skill |-> skill, action_type |-> action_type,
     any_mcp_call |-> any_mcp_call]

\* approval_rules when there is no rules file
NoRules == [auto_approve |-> <<>>, require_approval |-> <<>>]

\* a rules file that lets reports through and holds e-mail replies
SkillRules ==
    [auto_approve |-> <<Rule("report_generator", "", FALSE)>>,
     require_approval |-> <<Rule("email_responder", "", FALSE)>>]

\* the rules files a router is constructed with
RuleInputs ==
    { NoRules, SkillRules,
      [auto_approve |-> <<Rule("report_generator", "send_email", FALSE)>>,
       require_approval |-> <<Rule("", "", TRUE)>>],
      [auto_approve |-> <<Rule("", "", TRUE)>>,
       require_approval |-> <<Rule("report_generator", "", FALSE)>>] }

\* what the reasoning engine says about an event
Reasonings == [requires_approval : BOOLEAN, confidence : {50, 80, 90}]

NoReasoning == [requires_approval |-> FALSE, confidence |-> 0]

\* _matches_rule
_matches_rule(event, rule) ==
    IF rule.skill # "" /\ event.matched_skill # rule.skill THEN FALSE
    ELSE IF rule.action_type # "" /\ event.action_type # rule.action_type
         THEN FALSE
    ELSE IF rule.any_mcp_call /\ event.requires_mcp THEN TRUE
    ELSE TRUE

AnyMatch(event, rules) ==
    \E i \in 1..Len(rules) : _matches_rule(event, rules[i])

\* a check that lets a task through when no rule matches
_check_approval_required_default_open(event, reasoning, rules) ==
    IF reasoning.requires_approval THEN TRUE
    ELSE IF reasoning.confidence < ApprovalConfidence THEN TRUE
    ELSE IF AnyMatch(event, rules.auto_approve) THEN FALSE
    ELSE IF AnyMatch(event, rules.require_approval) THEN TRUE
    ELSE FALSE

\* _check_approval_required
_check_approval_required(event, reasoning, rules) ==
    IF reasoning.requires_approval THEN TRUE
    ELSE IF reasoning.confidence < ApprovalConfidence THEN TRUE
    ELSE IF AnyMatch(event, rules.auto_approve) THEN FALSE
    ELSE IF AnyMatch(event, rules.require_approval) THEN TRUE
    ELSE TRUE

\* _create_task_file: the path task-<second>-<event type>.md in destination
_create_task_file(destination, event, serial, second) ==
    <<destination, <<second, event.type>>>>

\* route_task: the path of the task file it writes
route_task(event, serial, reasoning, rules, second) ==
    _create_task_file(IF _check_approval_required(event, reasoning, rules)
                      THEN "Needs_Approval" ELSE "Needs_Action",
                      event, serial, second)

\* a loader that lists the files of Needs_Approval too
get_needs_action_items_all_queues(files) ==
    {p \in Paths : p[1] \in {"Needs_Action", "Needs_Approval"}
                   /\ files[p] # 0}

\* ContextLoader.get_needs_action_items: the files of Needs_Action
get_needs_action_items(files) ==
    {p \in Paths : p[1] = "Needs_Action" /\ files[p] # 0}

\* the sequences that list the elements of S once each
Orderings(S) ==
    {q \in [1..Cardinality(S) -> S] :
        \A i, j \in 1..Cardinality(S) : i # j => q[i] # q[j]}

\* StateManager.move_to_done: shutil.move of an existing file
move_to_done(files, path) ==
    [files EXCEPT ![<<"Done", path[2]>>] = files[path], ![path] = 0]

\* the metrics after earlier events that were all held for approval
MetricsAfter(earlier) ==
    [tasks_processed |-> earlier, auto_approved |-> 0,
     required_approval |-> earlier, alerts |-> 0,
     recent_activity |-> [i \in 1..earlier |-> i]]

NoPath == <<"", <<0, "">>>>

EvIdle ==
    [pc |-> "wait", sliced |-> <<>>, event |-> NoEvent,
     reasoning |-> NoReasoning, task_file |-> NoPath]

OrchCore(earlier, rules) ==
    /\ approval_rules = rules
    /\ vault = [p \in Paths |-> 0]
    /\ orch_queue = <<>>
    /\ metrics = MetricsAfter(earlier)
    /\ orch_now = 0
    /\ ev = EvIdle
    /\ ex = [pc |-> "sleep", tasks |-> <<>>, printed |-> "none"]
    /\ nEvents = 0
    /\ nAppended = earlier
    /\ executed = <<>>

OrchIdle == OrchCore(0, SkillRules)

\* the clock reaches the next second
OrchTick ==
    /\ UNCHANGED <<nonOrchVars, approval_rules>>
    /\ orch_now < MaxSecond
    /\ orch_now' = orch_now + 1
    /\ UNCHANGED <<vault, orch_queue, metrics, ev, ex, nEvents, nAppended,
                   executed>>

\* on_event, called by a watcher thread: the event is queued under
\* event_lock
OnEvent(event) ==
    /\ UNCHANGED <<nonOrchVars, approval_rules>>
    /\ nEvents < MaxEvents
    /\ nEvents' = nEvents + 1
    /\ orch_queue' = Append(orch_queue, [serial |-> nEvents + 1,
                                         event |-> event])
    /\ UNCHANGED <<vault, metrics, orch_now, ev, ex, nAppended, executed>>

\* _process_events takes an event and _handle_event routes it, counts it
\* and appends its activity
HandleEvent(reasoning) ==
    /\ UNCHANGED <<nonOrchVars, approval_rules>>
    /\ ev.pc = "wait"
    /\ orch_queue # <<>>
    /\ LET queued == Head(orch_queue)
           task_file == route_task(queued.event, queued.serial, reasoning,
                                   approval_rules, orch_now)
       IN  /\ vault' = [vault EXCEPT ![task_file] = queued.serial]
           /\ ev' = [ev EXCEPT !.pc = "check", !.event = queued,
                               !.reasoning = reasoning,
                               !.task_file = task_file]
    /\ orch_queue' = Tail(orch_queue)
    /\ metrics' =
          [metrics EXCEPT
              !.tasks_processed = @ + 1,
              !.required_approval =
                  IF reasoning.requires_approval THEN @ + 1 ELSE @,
              !.auto_approved =
                  IF reasoning.requires_approval THEN @ ELSE @ + 1,
              !.recent_activity = Append(@, nAppended + 1)]
    /\ nAppended' = nAppended + 1
    /\ UNCHANGED <<orch_now, ex, nEvents, executed>>

\* _handle_event when loading the context or the reasoning raises: an alert
\* is recorded
HandleEventRaises ==
    /\ UNCHANGED <<nonOrchVars, approval_rules>>
    /\ ev.pc = "wait"
    /\ orch_queue # <<>>
    /\ orch_queue' = Tail(orch_queue)
    /\ metrics' = [metrics EXCEPT !.alerts = @ + 1]
    /\ UNCHANGED <<vault, orch_now, ev, ex, nEvents, nAppended, executed>>

\* _handle_event: the length test, and the slice [-20:] of the list read
\* for the assignment
TruncateRead ==
    /\ UNCHANGED <<nonOrchVars, approval_rules>>
    /\ ev.pc = "check"
    /\ ev' = IF Len(metrics.recent_activity) > ActivityCap
             THEN [ev EXCEPT
                      !.pc = "store",
                      !.sliced = Last(metrics.recent_activity, ActivityCap)]
             ELSE EvIdle
    /\ UNCHANGED <<vault, orch_queue, metrics, orch_now, ex, nEvents, nAppended,
                   executed>>

\* _handle_event: the slice is stored as metrics['recent_activity']
TruncateStore ==
    /\ UNCHANGED <<nonOrchVars, approval_rules>>
    /\ ev.pc = "store"
    /\ metrics' = [metrics EXCEPT !.recent_activity = ev.sliced]
    /\ ev' = EvIdle
    /\ UNCHANGED <<vault, orch_queue, orch_now, ex, nEvents, nAppended,
                   executed>>

\* _execute_tasks lists the tasks to run (glob gives them in any order)
ListTasks(tasks) ==
    /\ UNCHANGED <<nonOrchVars, approval_rules>>
    /\ ex.pc = "sleep"
    /\ tasks # <<>>
    /\ tasks \in Orderings(get_needs_action_items(vault))
    /\ ex' = [ex EXCEPT !.pc = "run", !.tasks = tasks]
    /\ UNCHANGED <<vault, orch_queue, metrics, orch_now, ev, nEvents, nAppended,
                   executed>>

\* _execute_tasks runs the next listed task: execute_task reads the file,
\* log_task_completion moves it to Done, the activity is appended
ExecuteTask ==
    /\ UNCHANGED <<nonOrchVars, approval_rules>>
    /\ ex.pc = "run"
    /\ LET path == Head(ex.tasks)
       IN  /\ vault[path] # 0
           /\ executed' =
                 Append(executed,
                        [path |-> path, task |-> vault[path],
                         held |-> {vault[p] : p \in {q \in Paths :
                                      q[1] = "Needs_Approval"}} \ {0}])
           /\ vault' = move_to_done(vault, path)
    /\ metrics' = [metrics EXCEPT
                      !.recent_activity = Append(@, nAppended + 1)]
    /\ nAppended' = nAppended + 1
    /\ ex' = [pc |-> IF Len(ex.tasks) = 1 THEN "sleep" ELSE "run",
              tasks |-> Tail(ex.tasks), printed |-> "Task completed"]
    /\ UNCHANGED <<orch_queue, orch_now, ev, nEvents>>

\* _execute_tasks when the listed file is gone: execute_task returns an
\* error, move_to_done raises and the loop sleeps
ExecuteMissingTask ==
    /\ UNCHANGED <<nonOrchVars, approval_rules>>
    /\ ex.pc = "run"
    /\ vault[Head(ex.tasks)] = 0
    /\ ex' = [pc |-> "sleep", tasks |-> <<>>,
              printed |-> "Error in execution loop"]
    /\ UNCHANGED <<vault, orch_queue, metrics, orch_now, ev, nEvents, nAppended,
                   executed>>

\* the human approves a task: its file is moved to Needs_Action
HumanApprove(name) ==
    /\ UNCHANGED <<nonOrchVars, approval_rules>>
    /\ vault[<<"Needs_Approval", name>>] # 0
    /\ vault' = [vault EXCEPT
                    ![<<"Needs_Action", name>>] =
                        vault[<<"Needs_Approval", name>>],
                    ![<<"Needs_Approval", name>>] = 0]
    /\ UNCHANGED <<orch_queue, metrics, orch_now, ev, ex, nEvents, nAppended,
                   executed>>

\* the human holds a task back: its file is moved to Needs_Approval
HumanHold(name) ==
    /\ UNCHANGED <<nonOrchVars, approval_rules>>
    /\ vault[<<"Needs_Action", name>>] # 0
    /\ vault' = [vault EXCEPT
                    ![<<"Needs_Approval", name>>] =
                        vault[<<"Needs_Action", name>>],
                    ![<<"Needs_Action", name>>] = 0]
    /\ UNCHANGED <<orch_queue, metrics, orch_now, ev, ex, nEvents, nAppended,
                   executed>>

NextOrch ==
    \/ OrchTick
    \/ \E event \in PlainEvents : OnEvent(event)
    \/ \E reasoning \in Reasonings : HandleEvent(reasoning)
    \/ HandleEventRaises
    \/ TruncateRead
    \/ TruncateStore
    \/ \E tasks \in Orderings(get_needs_action_items(vault)) :
          ListTasks(tasks)
    \/ ExecuteTask
    \/ ExecuteMissingTask
    \/ \E name \in TaskNames : HumanApprove(name)
    \/ \E name \in TaskNames : HumanHold(name)

\* the event thread alone, fed with events of every shape
NextRouter ==
    \/ OrchTick
    \/ \E event \in EventInputs : OnEvent(event)
    \/ \E reasoning \in Reasonings : HandleEvent(reasoning)
    \/ HandleEventRaises
    \/ TruncateRead
    \/ TruncateStore

(***************************************************************************)
(* Specifications.                                                         *)
(***************************************************************************)
InitApproval ==
    ApprovalIdle /\ EngineIdle /\ WatcherIdle /\ RecoveryIdle /\ OrchIdle
    /\ WhatsAppIdle

\* the wrapped executor and the human reviewer
SpecApproval == InitApproval /\ [][NextApproval]_vars

\* one sensitive task through the wrapped executor, the human reviewer at
\* work, the monitor's thread being scheduled again and again
SpecMonitor == InitApproval /\ [][NextMonitor]_vars /\ WF_vars(MonitorStep)

\* is_sensitive_action on task dictionaries
SpecClassify == InitApproval /\ [][NextClassify]_vars

\* the manager called directly, as its tests and demos call it
SpecManager == InitApproval /\ [][NextManager]_vars

InitEngine ==
    ApprovalIdle /\ InitEngineCore /\ WatcherIdle /\ RecoveryIdle
    /\ OrchIdle /\ WhatsAppIdle

\* execute_plan_iteratively on one plan
SpecEngine == InitEngine /\ [][NextEngine]_vars

\* the engine's thread keeps running
SpecEngineFair == InitEngine /\ [][NextEngine]_vars /\ WF_vars(NextEngine)

InitFinalize ==
    ApprovalIdle /\ InitFinalizeCore /\ WatcherIdle /\ RecoveryIdle
    /\ OrchIdle /\ WhatsAppIdle

\* _finalize_plan on the plans the loop can leave
SpecFinalize == InitFinalize /\ [][FinalizePlan]_vars

InitWatcher ==
    ApprovalIdle /\ EngineIdle /\ WatcherIdle /\ RecoveryIdle /\ OrchIdle
    /\ WhatsAppIdle

\* the inbox watcher and its queue processor
SpecWatcher == InitWatcher /\ [][NextWatcher]_vars

InitPatterns ==
    ApprovalIdle /\ EngineIdle /\ config \in ConfigInputs /\ WatcherCore
    /\ RecoveryIdle /\ OrchIdle /\ WhatsAppIdle

\* the QueueProcessor thread keeps being scheduled
SpecWatcherFair ==
    InitWatcher /\ [][NextWatcher]_vars /\ WF_vars(ProcessorStep)

\* the service until it is stopped; time passes only while the processor
\* thread waits
SpecShutdown ==
    InitWatcher /\ [][NextShutdown]_vars /\ WF_vars(ProcessorStep)
    /\ WF_vars(TimedTick)

\* the inbox watcher of a service constructed with some pattern lists
SpecPatterns == InitPatterns /\ [][NextWatcher]_vars

InitRecovery ==
    ApprovalIdle /\ EngineIdle /\ WatcherIdle /\ recovery \in RecoveryInputs
    /\ OrchIdle /\ WhatsAppIdle

\* the recovery strategy selected for one failure, more than once
SpecRecovery == InitRecovery /\ [][DetermineRecovery]_vars

InitOrch ==
    /\ ApprovalIdle /\ EngineIdle /\ WatcherIdle /\ RecoveryIdle
    /\ WhatsAppIdle
    /\ \E earlier \in {0, ActivityCap} : OrchCore(earlier, SkillRules)

\* the orchestrator's event thread and execution thread, the watchers that
\* submit events and the human who moves task files
SpecOrch == InitOrch /\ [][NextOrch]_vars

InitRouter ==
    /\ ApprovalIdle /\ EngineIdle /\ WatcherIdle /\ RecoveryIdle
    /\ WhatsAppIdle
    /\ \E earlier \in {0, ActivityCap}, rules \in RuleInputs :
          OrchCore(earlier, rules)

\* the event thread of an orchestrator constructed with some rules file
SpecRouter == InitRouter /\ [][NextRouter]_vars

InitWhatsApp == InitWatcher

\* two threads calling the updating operations of one StateManager
SpecWhatsApp == InitWhatsApp /\ [][NextWhatsApp]_vars

(***************************************************************************)
(* Claims about the approval workflow.                                     *)
(***************************************************************************)
\* C1: a task that is_sensitive_action classifies as sensitive has its
\* original execute invoked only after the request was created and
\* monitor_approval returned APPROVED; after REJECTED or EXPIRED the action
\* is not executed.
C1_OnlyApprovedExecutes ==
    /\ (is_sensitive_action(w.task) /\ w.invoked)
          => (w.created /\ w.result = "APPROVED")
    /\ w.result \in {"REJECTED", "EXPIRED"} => ~w.invoked

C1_Witness ==
    /\ is_sensitive_action(w.task)
    /\ w.invoked /\ w.result = "APPROVED" /\ w.pc = "returned"

C7_CriticalExpiresAt900 ==
    /\ \A id \in Ids :
          (w.pc = "poll" /\ w.id = id /\ Exists(pending[id]) /\ ~w.touched)
              => pending[id].expires_in = TimeoutByPriority(w.task.priority)
    /\ (w.task.priority = "critical" /\ ~w.touched)
          => /\ w.pc = "poll" => w.elapsed <= TimeoutCritical + PollInterval
             /\ w.result = "EXPIRED"
                   => /\ w.elapsed <= TimeoutCritical + PollInterval
                      /\ done[<<w.id, "EXPIRED">>].req = w.req

\* C8: _archive_approval(id, status) on an existing Needs_Approval/<id>.md
\* is a move: afterwards <id>.md is gone, Done/<id>-<status>.md holds the
\* content <id>.md had, and no other file of either directory changed.
C8_ArchiveIsMove ==
    [][LET id == lastOp'.id
           st == lastOp'.status
       IN  (lastOp'.op = "archive" /\ Exists(pending[id]))
              => /\ ~Exists(pending'[id])
                 /\ done'[<<id, st>>] = pending[id]
                 /\ \A i \in Ids \ {id} : pending'[i] = pending[i]
                 /\ \A k \in (Ids \X Suffixes) \ {<<id, st>>} :
                        done'[k] = done[k]]_vars

C8_Witness ==
    /\ lastOp.op = "archive"
    /\ ~Exists(pending[lastOp.id])
    /\ Exists(done[<<lastOp.id, lastOp.status>>])
    /\ \E i \in Ids : Exists(pending[i])

\* C9 as stated: every id create_approval_request returns differs from every
\* id it returned before.
C9_IdsUnique ==
    \A i, j \in 1..Len(issued) : i # j => issued[i] # issued[j]

(***************************************************************************)
(* Claims about the execution loop.                                        *)
(***************************************************************************)
\* C3: in every reachable state of the execution loop, also right after an
\* attempt was counted, every step has attempts <= max_attempts.
C3_AttemptsBounded ==
    \A i \in 1..Len(steps) : steps[i].attempts <= steps[i].max_attempts

\* the last allowed attempt of a step has just been counted
C3_Witness ==
    \E i \in 1..Len(steps) :
        /\ steps[i].status = "IN_PROGRESS"
        /\ steps[i].attempts = steps[i].max_attempts
        /\ steps[i].max_attempts = MaxAttempts

\* C4: a step that was ever selected (it is running, has completed or has
\* an attempt counted) has every id of its dependency list naming a step of
\* the plan that is COMPLETED; an id naming no step is never met.
C4_DependenciesMet ==
    \A i \in 1..Len(steps) :
        (steps[i].attempts > 0
             \/ steps[i].status \in {"IN_PROGRESS", "COMPLETED"})
            => \A d \in steps[i].dependencies :
                  /\ d \in 1..Len(steps)
                  /\ steps[d].status = "COMPLETED"

C4_Witness ==
    \E i \in 1..Len(steps) :
        /\ steps[i].status = "IN_PROGRESS"
        /\ Cardinality(steps[i].dependencies) = 2

\* the steps reachable from the step set S along at most k dependency edges
RECURSIVE DependsOn(_, _)
DependsOn(S, k) ==
    IF k = 0 THEN S
    ELSE DependsOn(S \cup {d \in 1..Len(steps) :
                              \E j \in S : d \in steps[j].dependencies},
                   k - 1)

\* step i depends, directly or not, on itself
OnCycle(i) ==
    i \in DependsOn(steps[i].dependencies \cap (1..Len(steps)), Len(steps))

\* C5: execute_plan_iteratively terminates on every plan; when it has
\* returned every step is terminal, or the budget is used up, or no step is
\* executable; a step on a dependency cycle is never selected (it keeps the
\* status it was handed over with and no attempt is counted).
C5_Terminates ==
    /\ <>(pc = "done")
    /\ [](pc = "done"
            => \/ _is_plan_complete(steps)
               \/ iteration >= max_iterations
               \/ _get_next_step(steps)[1] = 0)
    /\ [](\A i \in 1..Len(steps) :
             OnCycle(i) => (steps[i].attempts = 0
                              /\ steps[i].status \in {"PENDING", "BLOCKED"}))

\* a plan with a dependency cycle has returned, another step having run
C5_Witness ==
    /\ pc = "done"
    /\ \E i \in 1..Len(steps) : OnCycle(i)
    /\ \E i \in 1..Len(steps) : steps[i].attempts > 0

C10_DebouncedOnce ==
    \A i, j \in 1..Len(enqueued) :
        (i < j /\ enqueued[i][1] = enqueued[j][1])
            => enqueued[j][2] - enqueued[i][2] >= DebounceTicks

\* the same path is notified again 0.5s after its event was queued
C10_Witness ==
    /\ lastEvent.outcome = "debounced"
    /\ lastEvent.time = processed_files[lastEvent.file] + 1
    /\ \E i \in 1..Len(enqueued) :
          enqueued[i] = <<lastEvent.file, lastEvent.time - 1>>

(***************************************************************************)
(* Further claims about the execution loop.                                *)
(***************************************************************************)
\* step i depends on the step before it and on nothing else
LinearPlan ==
    \A i \in 1..Len(steps) :
        steps[i].dependencies = IF i = 1 THEN {} ELSE {i - 1}

\* step j failed attempts - 1 times, fewer than max_attempts, then succeeded
RetriedThenSucceeded(j) ==
    /\ steps[j].status = "COMPLETED"
    /\ steps[j].attempts > 1
    /\ steps[j].attempts - 1 < steps[j].max_attempts

\* step i never failed: it succeeded at once or was never started
NeverFailed(i) ==
    \/ steps[i].status = "COMPLETED" /\ steps[i].attempts = 1
    \/ steps[i].status = "PENDING" /\ steps[i].attempts = 0

\* C11 as stated: when execute has returned on a linear plan in which one
\* step failed k < max_attempts times and then succeeded (it is COMPLETED
\* with attempts = k + 1) and no other step failed, the steps after it have
\* run too and the plan is COMPLETED.
C11_RetryThenPlanCompletes ==
    (/\ pc = "done"
     /\ LinearPlan
     /\ \E j \in 1..Len(steps) :
           /\ RetriedThenSucceeded(j)
           /\ \A i \in 1..Len(steps) \ {j} : NeverFailed(i))
        => /\ \A i \in 1..Len(steps) : steps[i].status = "COMPLETED"
           /\ planStatus = "COMPLETED"

\* C16 as stated: once a critical step's result is FAILED the loop halts
\* without starting a further step, and the plan execute returns after such
\* a result is AWAITING_APPROVAL.
C16_HaltsForIntervention ==
    /\ (/\ result.status = "FAILED"
        /\ \E i \in 1..Len(steps) :
              steps[i].status = "FAILED" /\ steps[i].is_critical)
          => pc \in {"finalize", "done"}
    /\ (pc = "done" /\ result.status = "FAILED")
          => planStatus = "AWAITING_APPROVAL"

\* C17 as stated: when the loop stopped because no step was eligible while
\* a step is BLOCKED, the plan execute returns is BLOCKED.
C17_BlockedPlanReturnedBlocked ==
    (/\ pc = "done"
     /\ iteration < max_iterations
     /\ _has_blocked_steps(steps)
     /\ _get_next_step(steps)[1] = 0)
        => planStatus = "BLOCKED"

C13_MissingFileRejects ==
    /\ [](w.read = "MISSING"
            => (w.result = "REJECTED" /\ w.inTime /\ ~w.invoked))
    /\ [][(/\ w.pc = "poll"
           /\ ~Exists(pending[w.id])
           /\ w.elapsed <= w.timeout
           /\ w'.pc # "poll")
            => /\ w'.pc = "returned"
               /\ w'.result = "REJECTED" /\ w'.read = "MISSING"
               /\ ~w'.invoked]_vars
    /\ (w.pc = "poll" /\ ~Exists(pending[w.id]) /\ w.elapsed <= w.timeout)
          ~> (w.pc = "returned" /\ w.result = "REJECTED")

\* the human deleted the file while it was monitored
C13_Witness ==
    /\ w.pc = "returned" /\ w.result = "REJECTED"
    /\ w.read = "MISSING" /\ w.touched /\ ~w.invoked
    /\ \A s \in Suffixes : done[<<w.id, s>>].req # w.req

\* C18 as stated, for the approval archival: when the target
\* Done/<id>-<status>.md exists, archiving leaves that file as it was (the
\* moved file gets another name).
C18_MoveNeverOverwrites ==
    [][LET id == lastOp'.id
           st == lastOp'.status
       IN  (/\ lastOp'.op = "archive"
            /\ Exists(pending[id])
            /\ Exists(done[<<id, st>>]))
              => done'[<<id, st>>] = done[<<id, st>>]]_vars

\* C19: is_sensitive_action(task) is true exactly when the action type is
\* in the sensitive-action list or in the always-require-approval list, or
\* the impact level is high or critical, or the data sensitivity is high or
\* pii, or the reversibility is irreversible, or the policy check fires;
\* the policy check fires exactly for a send_email with a PII marker in its
\* content or a recipient outside the company domains, a
\* financial_transaction with amount > 1000, and a post_linkedin or
\* post_twitter.
C19_SensitiveIff ==
    w.pc = "classified"
        => LET t == w.task
               policy ==
                   \/ /\ t.action_type = "send_email"
                      /\ \/ \E i \in 1..Len(t.content) :
                               t.content[i] \in {"SSN", "Password"}
                         \/ \E i \in 1..Len(t.recipients) :
                               t.recipients[i][Len(t.recipients[i])]
                                   # "company.com"
                               \/ Len(t.recipients[i]) = 1
                   \/ t.action_type = "financial_transaction"
                         /\ t.amount > 1000
                   \/ t.action_type \in {"post_linkedin", "post_twitter"}
           IN  /\ (w.read = "POLICY") <=> policy
               /\ (w.result = "SENSITIVE")
                     <=> \/ t.action_type \in sensitive_actions
                         \/ t.action_type \in always_require_approval
                         \/ t.impact_level \in {"high", "critical"}
                         \/ t.data_sensitivity \in {"high", "pii"}
                         \/ t.reversibility = "irreversible"
                         \/ policy
               /\ w.result \in {"SENSITIVE", "NOT_SENSITIVE"}

\* read_file, low impact, no sensitivity, reversible: not sensitive
C19_Witness ==
    /\ w.pc = "classified"
    /\ w.task.action_type = "read_file"
    /\ w.task.impact_level = "low"
    /\ w.task.data_sensitivity = "none"
    /\ w.task.reversibility = "reversible"
    /\ w.result = "NOT_SENSITIVE"

(***************************************************************************)
(* Further claims about the file watcher.                                  *)
(***************************************************************************)
\* C14: the event queue never holds more than max_queue_size events; a
\* notification that passes the filters while the queue is full is dropped,
\* leaving the queue as it was, and on_created returns for every file in
\* every state (it never waits for room).
C14_QueueBounded ==
    /\ [](Len(event_queue) <= MaxQueue)
    /\ [][(lastEvent' # lastEvent /\ Len(event_queue) = MaxQueue)
            => /\ event_queue' = event_queue
               /\ lastEvent'.outcome \in {"ignored", "debounced", "dropped"}
         ]_vars
    /\ [][(lastEvent' # lastEvent /\ lastEvent'.outcome = "dropped")
            => /\ Len(event_queue) = MaxQueue
               /\ event_queue' = event_queue]_vars
    /\ [](\A f \in Files :
             ENABLED (\/ OnCreatedIgnored(f) \/ OnCreatedDebounced(f)
                      \/ OnCreatedQueued(f) \/ OnCreatedDropped(f)))

\* a notification found the queue full and was dropped
C14_Witness ==
    /\ lastEvent.outcome = "dropped"
    /\ Len(event_queue) = MaxQueue
    /\ \A i \in 1..Len(event_queue) : event_queue[i] # lastEvent.file

\* C15 as stated: submitting an event returns true when the event was
\* queued and false when it was dropped because the queue was full.
C15_SubmitReportsAcceptance ==
    /\ lastEvent.outcome = "queued" => lastEvent.returned = "True"
    /\ lastEvent.outcome = "dropped" => lastEvent.returned = "False"

\* file f matches one of the patterns
MatchesAny(f, patterns) == \E pattern \in patterns : PathMatch(f, pattern)

\* C20: a created file passes the pattern filter exactly when its path
\* matches no ignore pattern and at least one watch pattern, so a file
\* matching both is ignored; with watch [*.md] and ignore [*.tmp, .*] only
\* task.md of task.md, temp.tmp, .hidden and data.txt passes, and only
\* files that pass are queued.
C20_AcceptedIffPatterns ==
    /\ lastEvent.outcome # "none"
          => (lastEvent.outcome # "ignored"
                <=> /\ ~MatchesAny(lastEvent.file, config.ignore_patterns)
                    /\ MatchesAny(lastEvent.file, config.watch_patterns))
    /\ (/\ config.watch_patterns = {"*.md"}
        /\ config.ignore_patterns = {"*.tmp", ".*"}
        /\ lastEvent.outcome \notin {"none", "ignored"})
          => lastEvent.file = MkFile("task", ".md", FALSE)
    /\ \A i \in 1..Len(enqueued) :
          /\ ~MatchesAny(enqueued[i][1], config.ignore_patterns)
          /\ MatchesAny(enqueued[i][1], config.watch_patterns)

\* a file matching a watch pattern and an ignore pattern was ignored
C20_Witness ==
    /\ lastEvent.outcome = "ignored"
    /\ MatchesAny(lastEvent.file, config.watch_patterns)
    /\ MatchesAny(lastEvent.file, config.ignore_patterns)
    /\ \E i \in 1..Len(enqueued) : enqueued[i][1].ext = lastEvent.file.ext

(***************************************************************************)
(* Claims about retry, selection, replanning and persistence.              *)
(***************************************************************************)
\* C24 as stated: a step that failed is retried while attempts remain and
\* is FAILED once attempts = max_attempts, so when execute has returned
\* every step that was attempted is COMPLETED, or FAILED with
\* attempts = max_attempts.
C24_FailedStepRetriedToTheBound ==
    pc = "done"
        => \A i \in 1..Len(steps) :
              steps[i].attempts > 0
                  => \/ steps[i].status = "COMPLETED"
                     \/ /\ steps[i].status = "FAILED"
                        /\ steps[i].attempts = steps[i].max_attempts

\* step i may be selected: PENDING, every dependency COMPLETED, attempts
\* below the bound
Eligible(i) ==
    /\ steps[i].status = "PENDING"
    /\ \A d \in steps[i].dependencies :
          d \in 1..Len(steps) /\ steps[d].status = "COMPLETED"
    /\ steps[i].attempts < steps[i].max_attempts

\* step i is PENDING with met dependencies and no attempt left
Spent(i) ==
    /\ steps[i].status = "PENDING"
    /\ \A d \in steps[i].dependencies :
          d \in 1..Len(steps) /\ steps[d].status = "COMPLETED"
    /\ steps[i].attempts >= steps[i].max_attempts

\* C25: the step an iteration starts is the lowest-ordinal eligible step;
\* the selection marks FAILED every spent step before it (every spent step
\* when it selects none), counts no attempt for them and changes no other
\* step.
C25_LowestEligibleSelected ==
    [][(pc = "loop" /\ pc' \in {"running", "finalize"}
          /\ iteration' = iteration + 1)
        => LET eligible == {i \in 1..Len(steps) : Eligible(i)}
               upto == IF eligible = {} THEN Len(steps)
                       ELSE CHOOSE i \in eligible :
                               \A j \in eligible : i <= j
           IN  /\ (pc' = "running") <=> (eligible # {})
               /\ pc' = "running"
                     => /\ cur' = upto
                        /\ steps'[upto].status = "IN_PROGRESS"
                        /\ steps'[upto].attempts = steps[upto].attempts + 1
               /\ \A i \in 1..Len(steps) :
                     (i # upto \/ pc' # "running")
                        => IF Spent(i) /\ i <= upto
                           THEN steps'[i] = [steps[i] EXCEPT
                                               !.status = "FAILED"]
                           ELSE steps'[i] = steps[i]]_vars

\* a spent step was marked FAILED by the selection that started a later one
C25_Witness ==
    /\ pc = "running"
    /\ \E i \in 1..Len(steps) :
          /\ i < cur
          /\ steps[i].status = "FAILED" /\ steps[i].attempts = 0
    /\ \E i \in 1..Len(steps) : i < cur /\ steps[i].status = "COMPLETED"

\* C26 as stated: after a step result that leaves at least 2 steps FAILED
\* the plan has been replanned, so no FAILED step is left in it (only the
\* COMPLETED steps are kept, followed by new steps).
C26_ReplanDiscardsUnfinished ==
    [][(pc = "running" /\ pc' # "running"
          /\ _should_replan(steps', result'))
        => \A i \in 1..Len(steps') : steps'[i].status # "FAILED"]_vars

\* C27 as stated: at the end of every outer iteration and when execute has
\* returned, the persisted plan document shows the status and attempts of
\* every step and the plan status as they are in memory.
C27_PersistedMatchesMemory ==
    pc \in {"loop", "done"}
        => persisted = PlanDocument(steps, planStatus)

(***************************************************************************)
(* Claims about expiry and archival of approval requests.                  *)
(***************************************************************************)
\* C28 as stated: when monitor_approval returns EXPIRED for a request whose
\* file still exists, the archived document <id>-EXPIRED.md is that file
\* with header status EXPIRED, whatever the human wrote into it.
C28_ExpiredDocumentSaysExpired ==
    [][(/\ w.pc = "poll"
        /\ w'.pc = "returned" /\ w'.result = "EXPIRED"
        /\ Exists(pending[w.id]))
        => /\ done'[<<w.id, "EXPIRED">>].req = pending[w.id].req
           /\ done'[<<w.id, "EXPIRED">>].status = "EXPIRED"]_vars

\* C29 as stated: when the wrapped execute has returned for a task it
\* created an approval request for, the request's file is no longer in
\* Needs_Approval and exactly one of <id>-EXECUTED.md, <id>-REJECTED.md and
\* <id>-EXPIRED.md in Done is the request's file.
C29_ArchivedOnReturn ==
    (w.pc = "returned" /\ w.created)
        => /\ pending[w.id].req # w.req
           /\ Cardinality({s \in Suffixes :
                              done[<<w.id, s>>].req = w.req}) = 1

(***************************************************************************)
(* Claims about recovery selection and about shared state.                 *)
(***************************************************************************)
StrategyTypes == {"ABORT", "ALTERNATIVE", "SKIP_AND_CONTINUE", "CONTINUE"}

C22_NoActivityLost ==
    LET n == Len(metrics.recent_activity)
    IN  /\ n <= nAppended
        /\ \A i \in 1..n :
              metrics.recent_activity[i] = nAppended - n + i

\* C23 as stated: the state file reflects every updating call that has
\* returned: each added message is in a queue and total_incoming counts
\* the added messages.
C23_NoUpdateLost ==
    LET added == {i \in 1..Len(wa_done) : wa_done[i].kind = "add_message"}
    IN  /\ \A i \in added :
              \/ InQueue(state_file.incoming, wa_done[i].id)
              \/ InQueue(state_file.approved, wa_done[i].id)
        /\ state_file.total_incoming = Cardinality(added)

\* C30: every task the execution thread has executed was a file of
\* Needs_Action when it was executed, and was not among the tasks held in
\* Needs_Approval at that moment.
C30_OnlyNeedsActionExecuted ==
    \A i \in 1..Len(executed) :
        /\ executed[i].path[1] = "Needs_Action"
        /\ executed[i].task # 0
        /\ executed[i].task \notin executed[i].held

\* a task was executed while another task was held in Needs_Approval
C30_Witness ==
    \E i \in 1..Len(executed) :
        /\ executed[i].held # {}
        /\ executed[i].path[1] = "Needs_Action"

(***************************************************************************)
(* Claims about step states and the iteration budget.                      *)
(***************************************************************************)
\* C34: once a step is COMPLETED or FAILED, no step of the execution loop
\* changes its status or its attempt counter.
C34_TerminalStepsStable ==
    [][\A i \in 1..Len(steps) :
          steps[i].status \in {"COMPLETED", "FAILED"}
              => /\ Len(steps') = Len(steps)
                 /\ steps'[i].status = steps[i].status
                 /\ steps'[i].attempts = steps[i].attempts]_vars

\* a step is executed while one step is COMPLETED and another is FAILED
C34_Witness ==
    /\ pc = "running"
    /\ \E i \in 1..Len(steps) : steps[i].status = "COMPLETED"
    /\ \E i \in 1..Len(steps) :
          steps[i].status = "FAILED" /\ steps[i].attempts > 0

\* C35 as stated: when execute has returned (no result ever asks for human
\* intervention), no step is left PENDING with every dependency COMPLETED
\* and attempts < max_attempts.
C35_BudgetNeverCutsShort ==
    pc = "done" => \A i \in 1..Len(steps) : ~Eligible(i)

\* C36: at most one step is IN_PROGRESS, it is the step being executed, and
\* no step is IN_PROGRESS between two iterations or when execute has
\* returned.
C36_OneStepInProgress ==
    LET running == {i \in 1..Len(steps) : steps[i].status = "IN_PROGRESS"}
    IN  /\ Cardinality(running) <= 1
        /\ pc = "running" => running = {cur}
        /\ pc # "running" => running = {}

\* execute has returned after an attempt that failed and was retried, and
\* after a step that failed every attempt
C36_Witness ==
    /\ pc = "done"
    /\ \E i \in 1..Len(steps) :
          steps[i].status = "COMPLETED" /\ steps[i].attempts > 1
    /\ \E i \in 1..Len(steps) :
          steps[i].status = "FAILED" /\ steps[i].attempts > 0

(***************************************************************************)
(* Claims about task routing.                                              *)
(***************************************************************************)
\* C31: route_task writes the task to one file, in Needs_Action or in
\* Needs_Approval, and changes no other file; it writes to Needs_Action
\* only when reasoning.requires_approval is false, the confidence is at
\* least 80 and an auto_approve rule matches the event; when no rule
\* matches, it writes to Needs_Approval.
C31_RoutedToOneQueue ==
    [][(ev.pc = "wait" /\ ev'.pc = "check")
        => LET r == ev'.reasoning
               e == ev'.event.event
               p == ev'.task_file
           IN  /\ p[1] \in {"Needs_Action", "Needs_Approval"}
               /\ vault'[p] = ev'.event.serial
               /\ \A q \in Paths \ {p} : vault'[q] = vault[q]
               /\ p[1] = "Needs_Action"
                     => /\ ~r.requires_approval
                        /\ r.confidence >= 80
                        /\ AnyMatch(e, approval_rules.auto_approve)
               /\ (/\ ~AnyMatch(e, approval_rules.auto_approve)
                   /\ ~AnyMatch(e, approval_rules.require_approval))
                     => p[1] = "Needs_Approval"]_vars

\* an event with confidence 80 that matches an auto_approve rule and a
\* require_approval rule was routed to Needs_Action
C31_Witness ==
    /\ ev.pc = "check"
    /\ ev.task_file[1] = "Needs_Action"
    /\ ev.reasoning.confidence = 80
    /\ AnyMatch(ev.event.event, approval_rules.require_approval)

\* C40 as stated: after routing n events there are n task files in the
\* queue directories.
C40_OneFilePerRoutedEvent ==
    Cardinality({p \in Paths : vault[p] # 0})
        = nEvents - Len(orch_queue) - metrics.alerts

(***************************************************************************)
(* Claims about unreadable approval documents.                             *)
(***************************************************************************)
InvalidHeaders == {"BADSTATUS", "NOHEADER"}

\* C37: while the monitored document has no header or a header that is no
\* valid decision, a step of the monitor neither approves nor rejects: the
\* monitor keeps polling, or it returns EXPIRED without the action having
\* run; and it never polls beyond the timeout plus one poll interval.
C37_UnreadableHeaderIsPending ==
    /\ [][(/\ w.pc = "poll"
            /\ Exists(pending[w.id])
            /\ pending[w.id].status \in InvalidHeaders
            /\ w' # w)
            => \/ w'.pc = "poll"
               \/ /\ w'.pc = "returned" /\ w'.result = "EXPIRED"
                  /\ ~w'.invoked]_vars
    /\ [](w.pc = "poll" => w.elapsed <= w.timeout + PollInterval)

\* the monitor returned EXPIRED for a request whose document had an
\* unreadable header at the deadline
C37_Witness ==
    /\ w.pc = "returned" /\ w.result = "EXPIRED" /\ ~w.invoked
    /\ done[<<w.id, "EXPIRED">>].req = w.req
    /\ done[<<w.id, "EXPIRED">>].status \in InvalidHeaders

\* the notification of this step passed the pattern filter and the debounce
\* check: on_created marked its path
Accepted(e) == e.outcome \in {"queued", "dropped"}

\* C33: a notification is discarded by debouncing exactly when a
\* notification for the same path was accepted less than debounce_seconds
\* earlier; an accepted notification starts the window of its path, a
\* discarded one leaves it as it was, and the passing of time does not move
\* it, so a notification at or after the end of the window is accepted.
C33_DebounceWindow ==
    /\ [][(lastEvent' # lastEvent /\ lastEvent'.outcome # "ignored")
            => (lastEvent'.outcome = "debounced"
                  <=> /\ processed_files[lastEvent'.file] # Never
                      /\ clock - processed_files[lastEvent'.file]
                            < DebounceTicks)]_vars
    /\ [][(lastEvent' # lastEvent)
            => IF Accepted(lastEvent')
               THEN processed_files' =
                       [processed_files EXCEPT ![lastEvent'.file] = clock]
               ELSE processed_files' = processed_files]_vars
    /\ [][lastEvent' = lastEvent => processed_files' = processed_files]_vars

\* a path is queued again exactly debounce_seconds after it was queued
C33_Witness ==
    /\ lastEvent.outcome = "queued"
    /\ lastEvent.time = DebounceTicks
    /\ \E i \in 1..Len(enqueued) : enqueued[i] = <<lastEvent.file, 0>>

\* C38: on_created marks the path before it tries to put it on the queue: a
\* notification dropped because the queue is full starts the debounce
\* window of its path, and the same path notified again within the window
\* is discarded as a duplicate, so neither notification queues the file.
C38_DroppedStillDebounces ==
    /\ [](lastEvent.outcome = "dropped"
            => processed_files[lastEvent.file] = lastEvent.time)
    /\ [][(/\ lastEvent' # lastEvent
           /\ lastEvent'.outcome # "ignored"
           /\ processed_files[lastEvent'.file] # Never
           /\ clock - processed_files[lastEvent'.file] < DebounceTicks
           /\ \A i \in 1..Len(enqueued) :
                 enqueued[i] # <<lastEvent'.file,
                                 processed_files[lastEvent'.file]>>)
            => /\ lastEvent'.outcome = "debounced"
               /\ enqueued' = enqueued
               /\ event_queue' = event_queue]_vars

\* a path dropped at a full queue was notified again within the window and
\* discarded, and is on the queue for neither notification
C38_Witness ==
    /\ lastEvent.outcome = "debounced"
    /\ processed_files[lastEvent.file] # Never
    /\ \A i \in 1..Len(enqueued) : enqueued[i][1] # lastEvent.file

\* the paths of the accepted events, in the order they were put on the queue
RECURSIVE PathsOf(_)
PathsOf(q) == IF q = <<>> THEN <<>> ELSE <<Head(q)[1]>> \o PathsOf(Tail(q))

\* the files the default patterns let through
Watched ==
    {f \in Files :
        /\ ~\E pattern \in ignore_patterns : PathMatch(f, pattern)
        /\ \E pattern \in watch_patterns : PathMatch(f, pattern)}

\* no more events than this are accepted within MaxClock
MaxAccepted == Cardinality(Watched) * ((MaxClock \div DebounceTicks) + 1)

\* C39: while the service runs, the paths handed to trigger_agent are the
\* paths put on the queue, once each and in the order they were put, the
\* rest still waiting in that order, whatever trigger_agent returned or
\* raised; and every path put on the queue is handed over in the end.
C39_DeliveredOnceInOrder ==
    /\ [](PathsOf(enqueued) = delivered \o event_queue)
    /\ \A n \in 1..MaxAccepted :
          (Len(enqueued) >= n) ~> (Len(delivered) >= n)

\* two paths went through the processor in turn, the first one failing
C39_Witness ==
    /\ Len(delivered) = 2
    /\ delivered[1] # delivered[2]
    /\ proc.events_processed = 1
    /\ event_queue # <<>>

\* C32: the processor thread never waits in get beyond the poll timeout,
\* once running is cleared it is still in its loop for at most one poll
\* timeout, and it leaves the loop in the end, the queue empty or not.
C32_ProcessorObservesStop ==
    /\ [](proc.pc = "get" => proc.waited <= PollTicks)
    /\ [](~proc.running /\ proc.pc # "stopped"
            => clock - proc.stopped_at <= PollTicks)
    /\ ~proc.running ~> proc.pc = "stopped"

\* the processor thread left a full poll timeout after stop(), having found
\* the queue empty all along
C32_Witness ==
    /\ proc.pc = "stopped"
    /\ enqueued = <<>>
    /\ clock = proc.stopped_at + PollTicks
====
